---------------------------- MODULE Spec2Model ----------------------------
(***************************************************************************)
(* State-machine model of the CastleFront simulation engine                *)
(* (src/game/GameEngine.ts, the GameEngine class that starts at line 1280).*)
(*                                                                         *)
(* Numbers.  The engine computes with IEEE doubles.  Wave power, tile      *)
(* defense and building hp are kept here as exact rationals <<n, d>>       *)
(* (d > 0, lowest terms), so that splitting and summing are exact.         *)
(* Player population is kept in thousandths (PopScale units per head).     *)
(* Wave and unit coordinates and speeds are kept in thousandths of a tile.  *)
(***************************************************************************)
EXTENDS Integers, Sequences, FiniteSets, TLC

VARIABLES config, tiles, players, attacks, wipeOutQueue, tickCount,
          winnerId, totalLandTiles, isGameActive, hist

vars == <<config, tiles, players, attacks, wipeOutQueue, tickCount,
          winnerId, totalLandTiles, isGameActive, hist>>

---------------------------------------------------------------------------
(* Exact rational arithmetic                                               *)

Abs(n) == IF n < 0 THEN -n ELSE n

RECURSIVE GCD(_, _)
GCD(a, b) == IF b = 0 THEN a ELSE GCD(b, a % b)

RNorm(n, d) ==
    LET g == GCD(Abs(n), d) IN IF g = 0 THEN <<0, 1>> ELSE <<n \div g, d \div g>>

RInt(k) == <<k, 1>>

RAdd(a, b) == RNorm(a[1] * b[2] + b[1] * a[2], a[2] * b[2])

RSub(a, b) == RNorm(a[1] * b[2] - b[1] * a[2], a[2] * b[2])

RMulI(a, k) == RNorm(a[1] * k, a[2])

RDivI(a, k) == RNorm(a[1], a[2] * k)

RLeq(a, b) == a[1] * b[2] <= b[1] * a[2]

RLt(a, b) == a[1] * b[2] < b[1] * a[2]

RMax(a, b) == IF RLt(a, b) THEN b ELSE a

---------------------------------------------------------------------------
(* Sequences                                                               *)

SeqContains(s, v) == \E i \in 1..Len(s) : s[i] = v

SeqRemoveAll(s, v) == SelectSeq(s, LAMBDA t : t # v)

SeqCount(s, v) == Cardinality({i \in 1..Len(s) : s[i] = v})

SeqRemoveAt(s, i) == SubSeq(s, 1, i - 1) \o SubSeq(s, i + 1, Len(s))

RECURSIVE SeqSum(_)
SeqSum(s) == IF s = <<>> THEN 0 ELSE Head(s) + SeqSum(Tail(s))

Min2(a, b) == IF a < b THEN a ELSE b

Max2(a, b) == IF a > b THEN a ELSE b

(* Array.prototype.sort with comparator key(a) - key(b): stable.  The pairs *)
(* are <<key, value>>.                                                     *)
RECURSIVE InsertPair(_, _)
InsertPair(sorted, p) ==
    IF sorted = <<>> THEN <<p>>
    ELSE IF p[1] < Head(sorted)[1] THEN <<p>> \o sorted
    ELSE <<Head(sorted)>> \o InsertPair(Tail(sorted), p)

RECURSIVE SortPairs(_, _)
SortPairs(ps, i) ==
    IF i = 0 THEN <<>> ELSE InsertPair(SortPairs(ps, i - 1), ps[i])

SortByKey(s, key(_)) ==
    LET ps == [i \in 1..Len(s) |-> <<key(s[i]), s[i]>>]
        sorted == SortPairs(ps, Len(s))
    IN  [i \in 1..Len(s) |-> sorted[i][2]]

---------------------------------------------------------------------------
(* Types and program constants                                             *)

NoOwner == "none"

ResourceTypes == {"GOLD", "WOOD", "STONE", "FOOD"}

BuildingTypes == {"KINGDOM", "CASTLE", "MARKET", "WOODCUTTER", "MINE", "FARM",
                  "BARRACKS", "PIER", "TOWN"}

UnitTypes == {"SOLDIER", "SWORDSMAN", "ARCHER", "HORSE", "TREBUCHET", "BOAT"}

Res(g, w, s, f) == [GOLD |-> g, WOOD |-> w, STONE |-> s, FOOD |-> f]

BUILDING_COSTS ==
    [KINGDOM    |-> Res(5000, 2000, 2000, 1000),
     CASTLE     |-> Res(1000, 500, 500, 200),
     MARKET     |-> Res(100, 50, 0, 0),
     WOODCUTTER |-> Res(50, 0, 0, 20),
     MINE       |-> Res(100, 100, 0, 50),
     FARM       |-> Res(50, 20, 0, 0),
     TOWN       |-> Res(200, 200, 50, 100),
     BARRACKS   |-> Res(300, 200, 200, 100),
     PIER       |-> Res(200, 300, 50, 50)]

BUILDING_STATS ==
    [KINGDOM    |-> [maxHp |-> 15000, income |-> Res(20, 5, 5, 10)],
     CASTLE     |-> [maxHp |-> 5000, income |-> Res(5, 0, 0, 2)],
     MARKET     |-> [maxHp |-> 500, income |-> Res(10, 0, 0, 0)],
     WOODCUTTER |-> [maxHp |-> 300, income |-> Res(0, 5, 0, 0)],
     MINE       |-> [maxHp |-> 400, income |-> Res(0, 0, 3, 0)],
     FARM       |-> [maxHp |-> 200, income |-> Res(0, 0, 0, 8)],
     TOWN       |-> [maxHp |-> 800, income |-> Res(0, 0, 0, 0)],
     BARRACKS   |-> [maxHp |-> 1000, income |-> Res(0, 0, 0, 0)],
     PIER       |-> [maxHp |-> 600, income |-> Res(0, 0, 0, 0)]]

UNIT_COSTS ==
    [SOLDIER   |-> Res(0, 0, 0, 0),
     SWORDSMAN |-> Res(50, 0, 10, 20),
     ARCHER    |-> Res(60, 40, 0, 20),
     HORSE     |-> Res(100, 0, 0, 60),
     TREBUCHET |-> Res(200, 300, 50, 50),
     BOAT      |-> Res(150, 200, 0, 50)]

(* speed is in thousandths of a tile per tick *)
UNIT_STATS ==
    [SOLDIER   |-> [hp |-> 50, attack |-> 5, speed |-> 100, range |-> 1],
     SWORDSMAN |-> [hp |-> 120, attack |-> 15, speed |-> 80, range |-> 1],
     ARCHER    |-> [hp |-> 80, attack |-> 12, speed |-> 100, range |-> 6],
     HORSE     |-> [hp |-> 200, attack |-> 20, speed |-> 160, range |-> 1],
     TREBUCHET |-> [hp |-> 300, attack |-> 50, speed |-> 40, range |-> 12],
     BOAT      |-> [hp |-> 400, attack |-> 30, speed |-> 120, range |-> 8]]

(* population is counted in thousandths of a head *)
PopScale == 10 * 10 * 10

(* coordinates of waves and units are counted in thousandths of a tile *)
CoordScale == 10 * 10 * 10

---------------------------------------------------------------------------
(* The engine object.  Operations are functions from engine records to     *)
(* engine records; an action applies one to the current state.             *)

Eng == [config |-> config, tiles |-> tiles, players |-> players,
        attacks |-> attacks, wipeOutQueue |-> wipeOutQueue,
        tickCount |-> tickCount, winnerId |-> winnerId,
        totalLandTiles |-> totalLandTiles, isGameActive |-> isGameActive]

SetEng(e) ==
    /\ config' = e.config
    /\ tiles' = e.tiles
    /\ players' = e.players
    /\ attacks' = e.attacks
    /\ wipeOutQueue' = e.wipeOutQueue
    /\ tickCount' = e.tickCount
    /\ winnerId' = e.winnerId
    /\ totalLandTiles' = e.totalLandTiles
    /\ isGameActive' = e.isGameActive

NoBuilding == [type |-> "NONE", ownerId |-> NoOwner, hp |-> <<0, 1>>, maxHp |-> 0,
               isUnderConstruction |-> FALSE, constructionProgress |-> 0]

HasBuilding(t) == t.building.type # "NONE"

isValid(e, x, y) ==
    x >= 0 /\ x < e.config.mapWidth /\ y >= 0 /\ y < e.config.mapHeight

(* Row-major scan "for y in y0..y1, for x in x0..x1" as a sequence of <<x, y>>. *)
ScanBox(x0, x1, y0, y1) ==
    LET w == x1 - x0 + 1
        h == y1 - y0 + 1
    IN  IF w <= 0 \/ h <= 0 THEN <<>>
        ELSE [i \in 1..(w * h) |-> <<x0 + ((i - 1) % w), y0 + ((i - 1) \div w)>>]

RowMajor(e) == ScanBox(0, e.config.mapWidth - 1, 0, e.config.mapHeight - 1)

(* this.players.find(p => p.id === id): the index of the first match, 0 if none *)
getPlayer(e, id) ==
    LET S == {i \in 1..Len(e.players) : e.players[i].id = id}
    IN  IF S = {} THEN 0 ELSE CHOOSE i \in S : \A j \in S : i <= j

(* 1 + Math.floor(population / 2000) *)
PopDefense(population) == RInt(1 + (population \div (2000 * PopScale)))

createPlayer(id, isAI, aiType) ==
    [id |-> id, isAI |-> isAI, aiType |-> aiType,
     resources |-> Res(100, 100, 50, 50),
     income |-> Res(0, 0, 0, 0),
     population |-> 5 * PopScale,
     maxPopulation |-> 0,
     militaryPopulation |-> 0,
     attackTarget |-> NoOwner,
     units |-> <<>>,
     center |-> [sumX |-> 0, sumY |-> 0, n |-> 1],
     landArea |-> 0,
     ownedTiles |-> <<>>]

SubRes(r, c) == [k \in ResourceTypes |-> r[k] - c[k]]

AddRes(r, c) == [k \in ResourceTypes |-> r[k] + c[k]]

CanAfford(r, c) == \A k \in ResourceTypes : ~(r[k] < c[k])

(* oldOwner.ownedTiles = oldOwner.ownedTiles.filter(t => t !== tile), when  *)
(* the tile has an owner and that owner is a player                        *)
RemoveFromOwner(e, pos) ==
    LET o == getPlayer(e, e.tiles[pos].ownerId)
    IN  IF e.tiles[pos].ownerId # NoOwner /\ o # 0
        THEN [e EXCEPT !.players[o].ownedTiles = SeqRemoveAll(@, pos)]
        ELSE e

placeBuilding(e, playerId, type, x, y, free) ==
    LET pi == getPlayer(e, playerId)
        paid == IF free THEN e
                ELSE [e EXCEPT !.players[pi].resources = SubRes(@, BUILDING_COSTS[type])]
        pos == <<x, y>>
        built == [paid EXCEPT
                    !.tiles[pos].building =
                        [type |-> type, ownerId |-> playerId,
                         hp |-> RInt(BUILDING_STATS[type].maxHp),
                         maxHp |-> BUILDING_STATS[type].maxHp,
                         isUnderConstruction |-> ~free,
                         constructionProgress |-> IF free THEN 100 ELSE 0],
                    !.tiles[pos].defense = PopDefense(paid.players[pi].population)]
        taken == LET r == RemoveFromOwner(built, pos)
                 IN  [r EXCEPT !.players[pi].ownedTiles = Append(@, pos),
                               !.tiles[pos].ownerId = playerId]
        cached == IF SeqContains(built.players[pi].ownedTiles, pos) THEN built
                  ELSE [built EXCEPT !.players[pi].ownedTiles = Append(@, pos)]
    IN  IF pi = 0 THEN [e |-> e, threw |-> FALSE]
        ELSE IF ~isValid(e, x, y) THEN [e |-> paid, threw |-> TRUE]
        ELSE IF e.tiles[pos].ownerId # playerId THEN [e |-> taken, threw |-> FALSE]
        ELSE [e |-> cached, threw |-> FALSE]

(* isValidSpawn without the test of the elevation *)
isValidSpawnAnyHeight(e, x, y) ==
    \A dx \in -2..2, dy \in -2..2 :
        /\ isValid(e, x + dx, y + dy)
        /\ LET tile == e.tiles[<<x + dx, y + dy>>]
           IN  /\ tile.type = "LAND"
               /\ ~HasBuilding(tile)
               /\ tile.ownerId = NoOwner

isValidSpawn(e, x, y) ==
    \A dx \in -2..2, dy \in -2..2 :
        /\ isValid(e, x + dx, y + dy)
        /\ LET tile == e.tiles[<<x + dx, y + dy>>]
           IN  /\ tile.type = "LAND"
               /\ ~HasBuilding(tile)
               /\ ~(tile.elevation > 12)
               /\ tile.ownerId = NoOwner

(* claimRadius taking the owned tiles within reach as well *)
ClaimedByForce(e, cx, cy, radius) ==
    SelectSeq(ScanBox(cx - radius, cx + radius, cy - radius, cy + radius),
              LAMBDA q : /\ isValid(e, q[1], q[2])
                         /\ (q[1] - cx) * (q[1] - cx) + (q[2] - cy) * (q[2] - cy)
                                <= radius * radius
                         /\ e.tiles[q].type = "LAND")

(* The tiles claimRadius takes, in scan order.  Each tile is tested once and *)
(* the test reads that tile alone.                                         *)
ClaimedBy(e, cx, cy, radius) ==
    SelectSeq(ScanBox(cx - radius, cx + radius, cy - radius, cy + radius),
              LAMBDA q : /\ isValid(e, q[1], q[2])
                         /\ (q[1] - cx) * (q[1] - cx) + (q[2] - cy) * (q[2] - cy)
                                <= radius * radius
                         /\ e.tiles[q].type = "LAND"
                         /\ e.tiles[q].ownerId = NoOwner)

claimRadius(e, playerId, cx, cy, radius) ==
    LET claimed == ClaimedBy(e, cx, cy, radius)
        S == {claimed[i] : i \in 1..Len(claimed)}
        pi == getPlayer(e, playerId)
        e1 == [e EXCEPT !.tiles =
                 [q \in DOMAIN e.tiles |->
                    IF q \in S
                    THEN [e.tiles[q] EXCEPT
                            !.ownerId = playerId,
                            !.defense = IF pi # 0
                                        THEN PopDefense(e.players[pi].population)
                                        ELSE @]
                    ELSE e.tiles[q]]]
        e2 == IF pi = 0 THEN e1
              ELSE [e1 EXCEPT !.players[pi].ownedTiles = @ \o claimed]
    IN  [e |-> e2, count |-> Len(claimed)]

(* The "reinforce 5x5 core" loop of spawnHumanBase and spawnBotBases.       *)
ReinforceCore(e, playerId, x, y) ==
    LET core == SelectSeq(ScanBox(x - 2, x + 2, y - 2, y + 2),
                          LAMBDA q : isValid(e, q[1], q[2]))
        S == {core[i] : i \in 1..Len(core)}
        pi == getPlayer(e, playerId)
        pop == IF pi = 0 THEN 0 ELSE e.players[pi].population
        e1 == [e EXCEPT !.tiles =
                 [q \in DOMAIN e.tiles |->
                    IF q \in S
                    THEN [e.tiles[q] EXCEPT !.ownerId = playerId,
                                            !.defense = PopDefense(pop)]
                    ELSE e.tiles[q]]]
    IN  IF pi = 0 THEN e1
        ELSE [e1 EXCEPT !.players[pi].ownedTiles = @ \o core]

spawnHumanBase(e, playerId, x, y) ==
    LET b == placeBuilding(e, playerId, "KINGDOM", x, y, TRUE).e
        c == claimRadius(b, playerId, x, y, 4)
        pi == getPlayer(c.e, playerId)
        m == IF pi = 0 THEN c.e
             ELSE [c.e EXCEPT !.players[pi].maxPopulation = c.count * 10]
    IN  IF isValidSpawn(e, x, y)
        THEN [e |-> ReinforceCore(m, playerId, x, y), ok |-> TRUE]
        ELSE [e |-> e, ok |-> FALSE]

isAdjacentToPlayer(e, x, y, playerId) ==
    \E n \in {<<0, -1>>, <<0, 1>>, <<-1, 0>>, <<1, 0>>} :
        /\ isValid(e, x + n[1], y + n[2])
        /\ e.tiles[<<x + n[1], y + n[2]>>].ownerId = playerId

canBuild(e, playerId, type, x, y) ==
    /\ isValid(e, x, y)
    /\ LET tile == e.tiles[<<x, y>>]
           pi == getPlayer(e, playerId)
       IN  /\ ~HasBuilding(tile)
           /\ IF type = "PIER"
              THEN tile.type = "WATER" /\ isAdjacentToPlayer(e, x, y, playerId)
              ELSE tile.type = "LAND" /\ tile.ownerId = playerId
           /\ CASE type = "FARM" -> ~(tile.elevation > 5)
                [] type = "MINE" -> ~(tile.elevation <= 5)
                [] type = "WOODCUTTER" -> ~(tile.elevation > 10)
                [] OTHER -> ~(tile.elevation > 12)
           /\ pi # 0
           /\ CanAfford(e.players[pi].resources, BUILDING_COSTS[type])

canSpawnUnit(e, playerId, type, x, y) ==
    /\ isValid(e, x, y)
    /\ LET tile == e.tiles[<<x, y>>]
           pi == getPlayer(e, playerId)
       IN  /\ IF type = "BOAT" THEN tile.type = "WATER" ELSE tile.type = "LAND"
           /\ tile.ownerId = playerId
           /\ pi # 0
           /\ CanAfford(e.players[pi].resources, UNIT_COSTS[type])
           /\ ~(e.players[pi].population < 1 * PopScale)

(* A variant of the query that sets the cost aside when it answers yes. *)
canBuildReserves(e, playerId, type, x, y) ==
    [e |-> IF canBuild(e, playerId, type, x, y)
           THEN [e EXCEPT !.players[getPlayer(e, playerId)].resources =
                              SubRes(@, BUILDING_COSTS[type])]
           ELSE e,
     ok |-> canBuild(e, playerId, type, x, y)]

(* canBuild as a call: the engine it leaves behind and the boolean it      *)
(* returns.  The method reads tiles and players and assigns nothing.       *)
canBuildCall(e, playerId, type, x, y) ==
    [e |-> e, ok |-> canBuild(e, playerId, type, x, y)]

(* canSpawnUnit as a call, likewise *)
canSpawnUnitCall(e, playerId, type, x, y) ==
    [e |-> e, ok |-> canSpawnUnit(e, playerId, type, x, y)]

(* Unit ids are random strings in the code; here the next unused number.   *)
NextUnitId(e) ==
    LET ids == UNION {{e.players[i].units[k].id : k \in 1..Len(e.players[i].units)} :
                        i \in 1..Len(e.players)}
    IN  IF ids = {} THEN 1 ELSE 1 + CHOOSE m \in ids : \A n \in ids : n <= m

spawnUnit(e, playerId, type, x, y) ==
    LET pi == getPlayer(e, playerId)
        stats == UNIT_STATS[type]
        unit == [id |-> NextUnitId(e), type |-> type, ownerId |-> playerId,
                 x |-> x * CoordScale, y |-> y * CoordScale,
                 hasTarget |-> FALSE, targetX |-> 0, targetY |-> 0,
                 hasCommand |-> FALSE, idleTicks |-> 0,
                 hp |-> stats.hp, maxHp |-> stats.hp, attack |-> stats.attack,
                 speed |-> stats.speed, range |-> stats.range]
    IN  IF pi = 0 THEN e
        ELSE IF ~CanAfford(e.players[pi].resources, UNIT_COSTS[type]) THEN e
        ELSE IF e.players[pi].population < 1 * PopScale THEN e
        ELSE [e EXCEPT !.players[pi].resources = SubRes(@, UNIT_COSTS[type]),
                       !.players[pi].population = @ - 1 * PopScale,
                       !.players[pi].units = Append(@, unit)]

(* x and y are in tiles; the unit's target is kept in thousandths *)
moveUnit(e, playerId, unitId, x, y) ==
    LET pi == getPlayer(e, playerId)
        K == IF pi = 0 THEN {}
             ELSE {k \in 1..Len(e.players[pi].units) : e.players[pi].units[k].id = unitId}
        k == CHOOSE m \in K : \A n \in K : m <= n
    IN  IF pi = 0 \/ K = {} THEN e
        ELSE [e EXCEPT !.players[pi].units[k] =
                [@ EXCEPT !.hasTarget = TRUE,
                          !.targetX = x * CoordScale, !.targetY = y * CoordScale,
                          !.hasCommand = TRUE, !.idleTicks = 0]]

distributeExpansion(e, playerId, clickX, clickY, percentage) ==
    LET targetOwner == e.tiles[<<clickX, clickY>>].ownerId
        pi == getPlayer(e, playerId)
        \* Math.floor(player.population * (percentage / 100))
        amountToSend == (e.players[pi].population * percentage) \div (100 * PopScale)
    IN  IF ~isValid(e, clickX, clickY) THEN e
        ELSE IF targetOwner = playerId THEN e
        ELSE IF pi = 0 THEN e
        ELSE IF e.players[pi].population <= 2 * PopScale THEN e
        ELSE IF amountToSend <= 0 THEN e
        ELSE [e EXCEPT !.players[pi].population = @ - amountToSend * PopScale,
                       !.players[pi].militaryPopulation = @ + amountToSend,
                       !.players[pi].attackTarget = targetOwner]

startMatch(e) == [e EXCEPT !.isGameActive = TRUE]

---------------------------------------------------------------------------
(* Dispatch and wave travel                                                *)

(* neighbors = [{x: 0, y: -1}, {x: 0, y: 1}, {x: -1, y: 0}, {x: 1, y: 0}] *)
Neighbors4 == <<(<<0, -1>>), (<<0, 1>>), (<<-1, 0>>), (<<1, 0>>)>>

(* Math.floor(Math.sqrt(n)) *)
RECURSIVE SqrtSearch(_, _, _)
SqrtSearch(n, lo, hi) ==
    IF lo >= hi THEN lo
    ELSE CHOOSE r \in {IF mid * mid <= n THEN SqrtSearch(n, mid, hi)
                                         ELSE SqrtSearch(n, lo, mid - 1) :
                          mid \in {(lo + hi + 1) \div 2}} : TRUE

ISqrt(n) == SqrtSearch(n, 0, Min2(n, 46340))

IsCapital(b) == b.type = "KINGDOM" \/ b.type = "CASTLE"

(* candidates of processMilitaryDispatch for player i, before the sort     *)
DispatchCandidates(e, i) ==
    LET player == e.players[i]
        targetOwner == player.attackTarget
        validNeighbors(tile) ==
            SelectSeq([k \in 1..4 |-> <<tile[1] + Neighbors4[k][1],
                                        tile[2] + Neighbors4[k][2]>>],
                      LAMBDA n :
                         /\ isValid(e, n[1], n[2])
                         /\ IF targetOwner = NoOwner
                            THEN e.tiles[n].ownerId = NoOwner /\ e.tiles[n].type = "LAND"
                            ELSE e.tiles[n].ownerId = targetOwner)
        all == [k \in 1..Len(player.ownedTiles) |->
                  [source |-> player.ownedTiles[k],
                   targets |-> validNeighbors(player.ownedTiles[k])]]
    IN  SelectSeq(all, LAMBDA c : Len(c.targets) > 0)

(* twice the player's castle coordinates (the map centre may be a half)    *)
CastleTwice(e, i) ==
    LET castles == SelectSeq(RowMajor(e),
                      LAMBDA q : /\ IsCapital(e.tiles[q].building)
                                 /\ e.tiles[q].ownerId = e.players[i].id)
    IN  IF Len(castles) > 0 THEN <<2 * castles[1][1], 2 * castles[1][2]>>
        ELSE <<e.config.mapWidth, e.config.mapHeight>>

(* cand.targets.forEach: one wave per target while budget remains *)
RECURSIVE DispatchTargets(_, _, _, _, _)
DispatchTargets(cand, t, powerPerTarget, remainingBudget, waves) ==
    IF t > Len(cand.targets) THEN [remainingBudget |-> remainingBudget, waves |-> waves]
    ELSE IF remainingBudget > 0
    THEN DispatchTargets(cand, t + 1, powerPerTarget, remainingBudget - powerPerTarget,
                         Append(waves, [sx |-> cand.source[1], sy |-> cand.source[2],
                                        tx |-> cand.targets[t][1], ty |-> cand.targets[t][2],
                                        power |-> powerPerTarget]))
    ELSE DispatchTargets(cand, t + 1, powerPerTarget, remainingBudget, waves)

(* for (const cand of candidates) *)
RECURSIVE DispatchSources(_, _, _, _, _)
DispatchSources(candidates, c, powerPerSource, remainingBudget, waves) ==
    IF c > Len(candidates) \/ remainingBudget <= 0
    THEN [remainingBudget |-> remainingBudget, waves |-> waves]
    ELSE LET powerForThis == Min2(powerPerSource, remainingBudget)
             powerPerTarget == Max2(1, powerForThis \div Len(candidates[c].targets))
             r == DispatchTargets(candidates[c], 1, powerPerTarget, remainingBudget, waves)
         IN  DispatchSources(candidates, c + 1, powerPerSource, r.remainingBudget, r.waves)

(* A looser flow rate: ceil(militaryPopulation * 0.05) + 10 *)
FlowRateLoose(militaryPopulation) == ((militaryPopulation + 19) \div 20) + 10

(* Math.ceil(militaryPopulation * 0.05) + 5 *)
FlowRate(militaryPopulation) == ((militaryPopulation + 19) \div 20) + 5

(* the dispatch of player i that charges the whole flow, spent or not     *)
DispatchPlayerFlat(e, i) ==
    LET player == e.players[i]
        castle == CastleTwice(e, i)
        key(c) == (2 * c.source[1] - castle[1]) * (2 * c.source[1] - castle[1])
                  + (2 * c.source[2] - castle[2]) * (2 * c.source[2] - castle[2])
        candidates == SortByKey(DispatchCandidates(e, i), key)
        amountToDeploy == Min2(player.militaryPopulation, FlowRate(player.militaryPopulation))
        powerPerSource == Max2(1, amountToDeploy \div Len(candidates))
        r == DispatchSources(candidates, 1, powerPerSource, amountToDeploy, <<>>)
    IN  IF player.militaryPopulation < 1 \/ Len(candidates) = 0
        THEN [waves |-> <<>>, actuallySpent |-> 0]
        ELSE [waves |-> r.waves, actuallySpent |-> amountToDeploy]

(* processMilitaryDispatch for player i: the waves to create and the       *)
(* population spent                                                        *)
DispatchPlayer(e, i) ==
    LET player == e.players[i]
        castle == CastleTwice(e, i)
        key(c) == (2 * c.source[1] - castle[1]) * (2 * c.source[1] - castle[1])
                  + (2 * c.source[2] - castle[2]) * (2 * c.source[2] - castle[2])
        candidates == SortByKey(DispatchCandidates(e, i), key)
        amountToDeploy == Min2(player.militaryPopulation, FlowRate(player.militaryPopulation))
        powerPerSource == Max2(1, amountToDeploy \div Len(candidates))
        r == DispatchSources(candidates, 1, powerPerSource, amountToDeploy, <<>>)
    IN  IF player.militaryPopulation < 1 \/ Len(candidates) = 0
        THEN [waves |-> <<>>, actuallySpent |-> 0]
        ELSE [waves |-> r.waves, actuallySpent |-> amountToDeploy - r.remainingBudget]

(* The waves one dispatch pass creates, in creation order *)
RECURSIVE DispatchWaves(_, _)
DispatchWaves(e, i) ==
    IF i > Len(e.players) THEN <<>>
    ELSE LET ws == DispatchPlayer(e, i).waves
         IN  [k \in 1..Len(ws) |->
                [ownerId |-> e.players[i].id, sx |-> ws[k].sx, sy |-> ws[k].sy,
                 tx |-> ws[k].tx, ty |-> ws[k].ty, power |-> ws[k].power]]
             \o DispatchWaves(e, i + 1)

(* createAttack: speed is 0.2 + Math.random() * 0.1, here the draw `speed` *)
createAttack(w, speed) ==
    [ownerId |-> w.ownerId, x |-> w.sx * CoordScale, y |-> w.sy * CoordScale,
     targetX |-> w.tx, targetY |-> w.ty, power |-> RInt(w.power), speed |-> speed]

(* speeds: the draws of Math.random, used in turn by the waves created *)
processMilitaryDispatch(e, speeds) ==
    LET created == DispatchWaves(e, 1)
    IN  [e EXCEPT
           !.attacks = @ \o [k \in 1..Len(created) |->
                               createAttack(created[k],
                                            speeds[((k - 1) % Len(speeds)) + 1])],
           !.players = [i \in 1..Len(e.players) |->
                          [e.players[i] EXCEPT !.militaryPopulation =
                              @ - DispatchPlayer(e, i).actuallySpent]]]

---------------------------------------------------------------------------
(* Combat: wave resolution and the wipe-out queue                          *)

(* A looser chain limit, two tiles above the one in the code. *)
LooseChain == 20 + 2

MAX_CHAIN == 20

queueWipeOutUnsorted(e, ai, di) ==
    LET defenderTiles == SelectSeq(RowMajor(e),
                            LAMBDA q : e.tiles[q].ownerId = e.players[di].id)
    IN  [e EXCEPT !.wipeOutQueue =
            @ \o [i \in 1..Len(defenderTiles) |->
                    [tile |-> defenderTiles[i], newOwnerId |-> e.players[ai].id]]]

(* queueWipeOut(attacker, defender); ai and di index this.players.  The    *)
(* attacker's center is (sumX / n, sumY / n); the sort key is the squared  *)
(* distance to it times n * n.                                             *)
queueWipeOut(e, ai, di) ==
    LET defenderTiles == SelectSeq(RowMajor(e),
                            LAMBDA q : e.tiles[q].ownerId = e.players[di].id)
        c == e.players[ai].center
        key(q) == (q[1] * c.n - c.sumX) * (q[1] * c.n - c.sumX)
                  + (q[2] * c.n - c.sumY) * (q[2] * c.n - c.sumY)
        sorted == SortByKey(defenderTiles, key)
    IN  [e EXCEPT !.wipeOutQueue =
            @ \o [i \in 1..Len(sorted) |->
                    [tile |-> sorted[i], newOwnerId |-> e.players[ai].id]]]

(* The record of one pass of applyAttack's while loop body *)
StepRec(current, tile, kind, pushed) ==
    [kind |-> kind, x |-> current.x, y |-> current.y,
     power |-> current.power, ownerId |-> current.ownerId,
     before |-> tile, pushed |-> pushed]

(* "2. Building Hit": hit is the engine with the damage applied *)
BuildingRazed(hit, current, pos, oi, victim) ==
    [(IF hit.tiles[pos].building.type = "KINGDOM" /\ victim # 0 /\ oi # 0
      THEN queueWipeOut(hit, oi, victim) ELSE hit)
     EXCEPT !.tiles[pos].building = NoBuilding]

(* A variant of the building hit that lets the impact through to the tile:  *)
(* the tile's defense drops to 0 as well.                                  *)
BuildingHitThrough(e, current, pos, oi, hpAfter) ==
    [e |-> IF RLeq(hpAfter, RInt(0))
           THEN BuildingRazed([e EXCEPT !.tiles[pos].building.hp = hpAfter], current,
                              pos, oi, getPlayer(e, e.tiles[pos].building.ownerId))
           ELSE [e EXCEPT !.tiles[pos].building.hp = hpAfter,
                          !.tiles[pos].defense = RInt(0)],
     push |-> <<>>, step |-> StepRec(current, e.tiles[pos], "building", <<>>)]

BuildingHit(e, current, pos, oi, hpAfter) ==
    [e |-> IF RLeq(hpAfter, RInt(0))
           THEN BuildingRazed([e EXCEPT !.tiles[pos].building.hp = hpAfter], current,
                              pos, oi, getPlayer(e, e.tiles[pos].building.ownerId))
           ELSE [e EXCEPT !.tiles[pos].building.hp = hpAfter],
     push |-> <<>>, step |-> StepRec(current, e.tiles[pos], "building", <<>>)]

(* "5. Overflow": won is the engine after the conquest *)
(* A variant of the overflow split that keeps a share back: the remainder  *)
(* is divided by one more than the number of eligible neighbours.          *)
OverflowKeepsShare(won, current, remainingPower) ==
    LET validNeighbors ==
            SelectSeq([i \in 1..4 |-> <<current.x + Neighbors4[i][1],
                                        current.y + Neighbors4[i][2]>>],
                      LAMBDA q : /\ isValid(won, q[1], q[2])
                                 /\ won.tiles[q].ownerId # current.ownerId)
        n == Len(validNeighbors)
    IN  IF RLt(RInt(10), remainingPower) /\ n > 0
        THEN [i \in 1..n |->
                [x |-> validNeighbors[i][1], y |-> validNeighbors[i][2],
                 power |-> RDivI(remainingPower, n + 1), ownerId |-> current.ownerId]]
        ELSE <<>>

Overflow(won, current, remainingPower) ==
    LET validNeighbors ==
            SelectSeq([i \in 1..4 |-> <<current.x + Neighbors4[i][1],
                                        current.y + Neighbors4[i][2]>>],
                      LAMBDA q : /\ isValid(won, q[1], q[2])
                                 /\ won.tiles[q].ownerId # current.ownerId)
        n == Len(validNeighbors)
    IN  IF RLt(RInt(10), remainingPower) /\ n > 0
        THEN [i \in 1..n |->
                [x |-> validNeighbors[i][1], y |-> validNeighbors[i][2],
                 power |-> RDivI(remainingPower, n), ownerId |-> current.ownerId]]
        ELSE <<>>

(* "4. Check Conquest", the branch "Won!"; removed is the engine with the   *)
(* tile taken out of its old owner's ownedTiles                            *)
Conquest(removed, pos, current, oi, pop) ==
    [removed EXCEPT
        !.tiles[pos].ownerId = current.ownerId,
        !.tiles[pos].defense = PopDefense(pop),
        !.players = IF oi = 0 THEN @
                    ELSE [@ EXCEPT ![oi].ownedTiles = Append(@, pos)]]

Captured(won, current, tile, overflow) ==
    [e |-> won, push |-> overflow, step |-> StepRec(current, tile, "capture", overflow)]

TileWon(won, current, tile, remainingPower) ==
    Captured(won, current, tile, Overflow(won, current, remainingPower))

(* "3. Tile Hit" *)
TileHit(e, current, pos, oi, pop, defAfter) ==
    IF RLeq(defAfter, RInt(0))
    THEN TileWon(Conquest(RemoveFromOwner([e EXCEPT !.tiles[pos].defense = defAfter], pos),
                          pos, current, oi, pop),
                 current, e.tiles[pos],
                 RSub(current.power, RMulI(e.tiles[pos].defense, 10)))
    ELSE [e |-> [e EXCEPT !.tiles[pos].defense = defAfter], push |-> <<>>,
          step |-> StepRec(current, e.tiles[pos], "damage", <<>>)]

(* "Heal Own" *)
HealOwn(e, current, pos, damage, maxDef) ==
    [e |-> IF RLt(e.tiles[pos].defense, maxDef)
           THEN [e EXCEPT !.tiles[pos].defense =
                    IF RLt(maxDef, RAdd(e.tiles[pos].defense, damage))
                    THEN maxDef ELSE RAdd(e.tiles[pos].defense, damage)]
           ELSE e,
     push |-> <<>>, step |-> StepRec(current, e.tiles[pos], "heal", <<>>)]

StepOn(e, current, pos, damage, oi, pop) ==
    IF HasBuilding(e.tiles[pos])
    THEN BuildingHit(e, current, pos, oi, RSub(e.tiles[pos].building.hp, damage))
    ELSE IF e.tiles[pos].ownerId # current.ownerId
    THEN TileHit(e, current, pos, oi, pop, RSub(e.tiles[pos].defense, damage))
    ELSE HealOwn(e, current, pos, damage, PopDefense(pop))

StepBy(e, current, oi) ==
    StepOn(e, current, <<current.x, current.y>>,
           RMax(<<1, 10>>, RDivI(current.power, 10)), oi,
           IF oi = 0 THEN 0 ELSE e.players[oi].population)

(* One pass of applyAttack's while loop body on the entry `current`, for a  *)
(* valid tile.  Returns the engine, the entries pushed on the BFS queue and *)
(* a record of the step.                                                   *)
AttackStep(e, current) == StepBy(e, current, getPlayer(e, current.ownerId))

(* How often the tile at pos occurs in the ownedTiles of player id *)
CacheCount(e, id, pos) ==
    LET i == getPlayer(e, id)
    IN  IF i = 0 THEN 0 ELSE SeqCount(e.players[i].ownedTiles, pos)

(* The record of a step, with the tile and the two ownership caches seen    *)
(* before (in e) and after (in r.e) it                                     *)
StepSeen(e, r) ==
    LET pos == <<r.step.x, r.step.y>>
        a == r.step.ownerId
        b == r.step.before.ownerId
        ai == getPlayer(e, a)
    IN  [kind |-> r.step.kind, x |-> r.step.x, y |-> r.step.y,
         power |-> r.step.power, ownerId |-> a, before |-> r.step.before,
         pushed |-> r.step.pushed, after |-> r.e.tiles[pos],
         population |-> IF ai = 0 THEN 0 ELSE e.players[ai].population,
         cacheA |-> <<CacheCount(e, a, pos), CacheCount(r.e, a, pos)>>,
         cacheB |-> <<CacheCount(e, b, pos), CacheCount(r.e, b, pos)>>,
         eligible |-> Cardinality({k \in 1..Len(Neighbors4) :
                        LET n == <<pos[1] + Neighbors4[k][1], pos[2] + Neighbors4[k][2]>>
                        IN  isValid(e, n[1], n[2]) /\ e.tiles[n].ownerId # a})]

(* while (queue.length > 0 && tilesProcessed < MAX_CHAIN) *)
RECURSIVE AttackLoop(_, _, _, _)
AttackNext(e, queue, tilesProcessed, steps, r) ==
    AttackLoop(r.e, Tail(queue) \o r.push, tilesProcessed + 1,
               Append(steps, StepSeen(e, r)))


(* one test of the loop condition and, when it holds, one pass of the body *)
AttackTurn(e, queue, tilesProcessed, steps) ==
    IF ~(Len(queue) > 0 /\ tilesProcessed < MAX_CHAIN)
    THEN [e |-> e, steps |-> steps, tilesProcessed |-> tilesProcessed,
          left |-> Len(queue)]
    ELSE IF ~isValid(e, Head(queue).x, Head(queue).y)
    THEN AttackLoop(e, Tail(queue), tilesProcessed, steps)
    ELSE CHOOSE out \in {AttackNext(e, queue, tilesProcessed, steps, r) :
                            r \in {AttackStep(e, Head(queue))}} : TRUE

AttackLoop(e, queue, tilesProcessed, steps) ==
    CHOOSE r \in {AttackTurn(s.e, s.queue, s.tilesProcessed, s.steps) :
                     s \in {[e |-> e, queue |-> queue,
                             tilesProcessed |-> tilesProcessed, steps |-> steps]}} : TRUE

applyAttack(e, initialAtk) ==
    AttackLoop(e, <<[x |-> initialAtk.targetX, y |-> initialAtk.targetY,
                     power |-> initialAtk.power, ownerId |-> initialAtk.ownerId]>>,
               0, <<>>)

(* A variant that lands a wave half a tile from its target *)
WaveLandedEarly(atk) ==
    LET dx == atk.targetX * CoordScale - atk.x
        dy == atk.targetY * CoordScale - atk.y
    IN  dx * dx + dy * dy < 500 * 500

(* One wave of updateAttacks: it has landed (dist < 0.2) or it moves on.    *)
WaveLanded(atk) ==
    LET dx == atk.targetX * CoordScale - atk.x
        dy == atk.targetY * CoordScale - atk.y
    IN  dx * dx + dy * dy < 200 * 200

WaveMoved(atk) ==
    LET dx == atk.targetX * CoordScale - atk.x
        dy == atk.targetY * CoordScale - atk.y
        dist == ISqrt(dx * dx + dy * dy)
        move == Min2(dist, atk.speed)
        step(d) == IF d >= 0 THEN (d * move) \div dist ELSE 0 - ((0 - d) * move) \div dist
    IN  [atk EXCEPT !.x = @ + step(dx), !.y = @ + step(dy)]

(* for (let i = this.attacks.length - 1; i >= 0; i--); logs collects the   *)
(* applyAttack runs in the order they happen                               *)
RECURSIVE AttacksLoop(_, _, _)
WaveResolved(e, i, logs, atk, r) ==
    AttacksLoop([r.e EXCEPT !.attacks = SeqRemoveAt(@, i)], i - 1,
                Append(logs, [wave |-> atk, steps |-> r.steps,
                              tilesProcessed |-> r.tilesProcessed, left |-> r.left]))

(* the body of the loop for the wave at index i *)
AttacksAt(e, i, logs) ==
    IF WaveLanded(e.attacks[i])
    THEN WaveResolved(e, i, logs, e.attacks[i], applyAttack(e, e.attacks[i]))
    ELSE AttacksLoop([e EXCEPT !.attacks[i] = WaveMoved(@)], i - 1, logs)

AttacksLoop(e, i, logs) ==
    IF i = 0 THEN [e |-> e, logs |-> logs]
    ELSE CHOOSE r \in {AttacksAt(s.e, i, s.logs) : s \in {[e |-> e, logs |-> logs]}} : TRUE

updateAttacks(e) == AttacksLoop(e, Len(e.attacks), <<>>)

(* processWipeOutQueue: the body of the loop, for the entry at the front   *)
DrainEntry(e) ==
    LET item == Head(e.wipeOutQueue)
        pos == item.tile
        e1 == [e EXCEPT !.wipeOutQueue = Tail(@)]
        e2 == RemoveFromOwner(e1, pos)
        e3 == [e2 EXCEPT !.tiles[pos].ownerId = item.newOwnerId,
                         !.tiles[pos].defense = RInt(50)]
        ni == getPlayer(e3, item.newOwnerId)
        e4 == IF ni = 0 THEN e3
              ELSE [e3 EXCEPT !.players[ni].ownedTiles = Append(@, pos)]
    IN  IF HasBuilding(e4.tiles[pos])
        THEN [e4 EXCEPT !.tiles[pos].building.ownerId = item.newOwnerId]
        ELSE e4

RECURSIVE DrainRun(_, _)
DrainRun(e, count) ==
    IF count = 0 \/ Len(e.wipeOutQueue) = 0 THEN e
    ELSE DrainRun(DrainEntry(e), count - 1)

(* processWipeOutQueue: the entries drained this tick, one after another   *)
(* (the loop is unrolled in runs of 25 entries)                            *)
RECURSIVE DrainWipeOut(_, _)
DrainWipeOut(e, count) ==
    IF count = 0 \/ Len(e.wipeOutQueue) = 0 THEN e
    ELSE IF count <= 25 THEN DrainRun(e, count)
    ELSE DrainWipeOut(DrainRun(e, 25), count - 25)

(* A slower drain: at least 40 entries a tick instead of 50. *)
WipeOutCountSlow(length) == Max2(40, (length + 19) \div 20)

(* Math.max(50, Math.ceil(length / 20)) *)
WipeOutCount(length) == Max2(50, (length + 19) \div 20)

processWipeOutQueue(e) ==
    IF Len(e.wipeOutQueue) = 0 THEN e
    ELSE DrainWipeOut(e, WipeOutCount(Len(e.wipeOutQueue)))

---------------------------------------------------------------------------
(* Units                                                                   *)

CeilDiv(a, b) == 0 - ((0 - a) \div b)

DistSq(ax, ay, bx, by) == (ax - bx) * (ax - bx) + (ay - by) * (ay - by)

(* "1. MOVEMENT" of updateUnits *)
UnitMoved(e, unit) ==
    LET dx == unit.targetX - unit.x
        dy == unit.targetY - unit.y
        dist == ISqrt(dx * dx + dy * dy)
        cx == unit.x \div CoordScale
        cy == unit.y \div CoordScale
        \* speed * speedMod, speedMod = 1.0 - elevation / 25 on land
        pace == IF isValid(e, cx, cy) /\ e.tiles[<<cx, cy>>].type = "LAND"
                THEN (unit.speed * (25 - e.tiles[<<cx, cy>>].elevation)) \div 25
                ELSE unit.speed
        move == Min2(dist, pace)
        step(d) == IF d >= 0 THEN (d * move) \div dist ELSE 0 - ((0 - d) * move) \div dist
    IN  IF ~unit.hasTarget THEN unit
        ELSE IF dx * dx + dy * dy <= 200 * 200
        THEN [unit EXCEPT !.hasCommand = FALSE, !.hasTarget = FALSE,
                          !.targetX = 0, !.targetY = 0]
        ELSE [unit EXCEPT !.x = @ + step(dx), !.y = @ + step(dy)]

(* The tiles handleCombat probes, in probing order, that hold a building of *)
(* another owner within range                                              *)
BuildingsInRange(e, unit, ownerId) ==
    LET r == unit.range
        box == ScanBox((unit.x - r * CoordScale) \div CoordScale,
                       CeilDiv(unit.x + r * CoordScale, CoordScale),
                       (unit.y - r * CoordScale) \div CoordScale,
                       CeilDiv(unit.y + r * CoordScale, CoordScale))
    IN  SelectSeq(box,
           LAMBDA q : /\ isValid(e, q[1], q[2])
                      /\ DistSq(unit.x, unit.y, q[1] * CoordScale, q[2] * CoordScale)
                            <= (r * CoordScale) * (r * CoordScale)
                      /\ HasBuilding(e.tiles[q])
                      /\ e.tiles[q].building.ownerId # ownerId)

(* The enemy units handleCombat can hit, as <<player index, unit index>>,   *)
(* in the order of its two loops                                           *)
UnitsInRange(e, unit, ownerId) ==
    LET pairs(i) == [k \in 1..Len(e.players[i].units) |-> <<i, k>>]
        RECURSIVE all(_)
        all(i) == IF i > Len(e.players) THEN <<>> ELSE pairs(i) \o all(i + 1)
    IN  SelectSeq(all(1),
           LAMBDA pk : /\ e.players[pk[1]].id # ownerId
                       /\ DistSq(unit.x, unit.y, e.players[pk[1]].units[pk[2]].x,
                                 e.players[pk[1]].units[pk[2]].y)
                             <= (unit.range * CoordScale) * (unit.range * CoordScale))

(* the building on pos is destroyed: "Check for King Slayer" and after *)
UnitRazed(hit, pos, killer, victim) ==
    [(IF hit.tiles[pos].building.type = "KINGDOM" /\ victim # 0 /\ killer # 0
      THEN queueWipeOut(hit, killer, victim) ELSE hit)
     EXCEPT !.tiles[pos].building = NoBuilding, !.tiles[pos].ownerId = NoOwner]

(* what a unit of ownerId destroyed on pos, and what its owner held then *)
KillRec(e, pos, ownerId) ==
    [pos |-> pos, type |-> e.tiles[pos].building.type,
     victim |-> e.tiles[pos].building.ownerId, killer |-> ownerId,
     queued |-> /\ e.tiles[pos].building.type = "KINGDOM"
                /\ getPlayer(e, e.tiles[pos].building.ownerId) # 0
                /\ getPlayer(e, ownerId) # 0,
     victimTiles |-> {q \in DOMAIN e.tiles :
                        e.tiles[q].ownerId = e.tiles[pos].building.ownerId}]

StrikeBuilding(e, unit, ownerId, pos, hpAfter) ==
    IF RLeq(hpAfter, RInt(0))
    THEN [e |-> UnitRazed([e EXCEPT !.tiles[pos].building.hp = hpAfter], pos,
                          getPlayer(e, ownerId),
                          getPlayer(e, e.tiles[pos].building.ownerId)),
          engaged |-> TRUE, kills |-> <<KillRec(e, pos, ownerId)>>]
    ELSE [e |-> [e EXCEPT !.tiles[pos].building.hp = hpAfter],
          engaged |-> TRUE, kills |-> <<>>]

CombatOn(e, unit, ownerId, bs, us) ==
    IF Len(bs) > 0
    THEN StrikeBuilding(e, unit, ownerId, bs[1],
                        RSub(e.tiles[bs[1]].building.hp, RInt(unit.attack)))
    ELSE IF Len(us) > 0
    THEN [e |-> [e EXCEPT !.players[us[1][1]].units[us[1][2]].hp = @ - unit.attack],
          engaged |-> TRUE, kills |-> <<>>]
    ELSE [e |-> e, engaged |-> FALSE, kills |-> <<>>]

(* handleCombat(unit, ownerId): the engine after it, whether it attacked,  *)
(* and a record of the building it destroyed, if any                       *)
handleCombat(e, unit, ownerId) ==
    CombatOn(e, unit, ownerId, BuildingsInRange(e, unit, ownerId),
             UnitsInRange(e, unit, ownerId))

(* the index of the first least element of ds, 0 if ds is empty *)
ArgMinFirst(ds) ==
    IF Len(ds) = 0 THEN 0
    ELSE CHOOSE k \in 1..Len(ds) :
            \A j \in 1..Len(ds) : ds[k] < ds[j] \/ (ds[k] = ds[j] /\ k <= j)

(* the enemy buildings findTarget sees, in scan order *)
BuildingsInSight(e, unit, ownerId) ==
    SelectSeq(ScanBox(Max2(0, (unit.x - 15 * CoordScale) \div CoordScale),
                      Min2(e.config.mapWidth, (unit.x + 15 * CoordScale) \div CoordScale) - 1,
                      Max2(0, (unit.y - 15 * CoordScale) \div CoordScale),
                      Min2(e.config.mapHeight, (unit.y + 15 * CoordScale) \div CoordScale) - 1),
              LAMBDA q : /\ HasBuilding(e.tiles[q])
                         /\ e.tiles[q].building.ownerId # ownerId)

UnitDistSq(e, unit, pk) ==
    DistSq(unit.x, unit.y, e.players[pk[1]].units[pk[2]].x, e.players[pk[1]].units[pk[2]].y)

SeekSet(e, unit, bs, bBest, near, uBest) ==
    IF uBest > 0
    THEN [unit EXCEPT !.hasTarget = TRUE,
                      !.targetX = e.players[near[uBest][1]].units[near[uBest][2]].x,
                      !.targetY = e.players[near[uBest][1]].units[near[uBest][2]].y,
                      !.hasCommand = FALSE]
    ELSE IF bBest > 0
    THEN [unit EXCEPT !.hasTarget = TRUE, !.targetX = bs[bBest][1] * CoordScale,
                      !.targetY = bs[bBest][2] * CoordScale, !.hasCommand = FALSE]
    ELSE unit

SeekNear(e, unit, bs, bBest, near) ==
    SeekSet(e, unit, bs, bBest, near,
            ArgMinFirst([k \in 1..Len(near) |-> UnitDistSq(e, unit, near[k])]))

(* d < scanRadius && d < nearestDist for the enemy units us *)
SeekUnits(e, unit, bs, bBest, us) ==
    SeekNear(e, unit, bs, bBest,
             SelectSeq(us, LAMBDA pk :
                /\ UnitDistSq(e, unit, pk) < (15 * CoordScale) * (15 * CoordScale)
                /\ (bBest = 0 \/ UnitDistSq(e, unit, pk)
                                   < DistSq(unit.x, unit.y, bs[bBest][1] * CoordScale,
                                            bs[bBest][2] * CoordScale))))

SeekFrom(e, unit, ownerId, bs) ==
    SeekUnits(e, unit, bs,
              ArgMinFirst([k \in 1..Len(bs) |->
                             DistSq(unit.x, unit.y, bs[k][1] * CoordScale,
                                    bs[k][2] * CoordScale)]),
              UnitsInRange(e, [unit EXCEPT !.range = 15], ownerId))

(* findTarget(unit, ownerId): the unit with its new target, if one is found *)
findTarget(e, unit, ownerId) ==
    SeekFrom(e, unit, ownerId, BuildingsInSight(e, unit, ownerId))

(* wander(unit); d is the random offset <<dx, dy>>, each in [-2, 2) tiles  *)
wander(e, unit, d) ==
    LET nx == unit.x + d[1]
        ny == unit.y + d[2]
        tx == nx \div CoordScale
        ty == ny \div CoordScale
        isBoat == unit.type = "BOAT"
    IN  IF isValid(e, tx, ty)
           /\ ((isBoat /\ e.tiles[<<tx, ty>>].type = "WATER")
               \/ (~isBoat /\ e.tiles[<<tx, ty>>].type = "LAND"))
        THEN [unit EXCEPT !.hasTarget = TRUE, !.targetX = nx, !.targetY = ny,
                          !.hasCommand = FALSE]
        ELSE unit

(* The body of updateUnits for unit k of player i that is neither dead nor *)
(* deprecated.  st holds the engine, the kills so far and the wander draws *)
(* still unused; c is the outcome of handleCombat.                         *)
ActDone(st, c, i, k, after, roams) ==
    [e |-> [c.e EXCEPT !.players[i].units[k] = after],
     kills |-> st.kills \o c.kills,
     draws |-> IF roams THEN Tail(st.draws) \o <<Head(st.draws)>> ELSE st.draws]

(* "3. IDLE BEHAVIOR", after findTarget *)
ActSought(st, c, i, k, sought) ==
    IF sought.hasTarget THEN ActDone(st, c, i, k, sought, FALSE)
    ELSE IF sought.idleTicks + 1 > 30
    THEN ActDone(st, c, i, k,
                 [wander(c.e, [sought EXCEPT !.idleTicks = @ + 1], Head(st.draws))
                    EXCEPT !.idleTicks = 0], TRUE)
    ELSE ActDone(st, c, i, k, [sought EXCEPT !.idleTicks = @ + 1], FALSE)

(* "2. COMBAT" done *)
ActFought(st, c, i, k) ==
    IF c.e.players[i].units[k].hasCommand \/ c.e.players[i].units[k].hasTarget
    THEN ActDone(st, c, i, k, c.e.players[i].units[k], FALSE)
    ELSE ActSought(st, c, i, k,
                   IF c.engaged THEN c.e.players[i].units[k]
                   ELSE findTarget(c.e, c.e.players[i].units[k], c.e.players[i].id))

ActMoved(st, i, k, moved) ==
    ActFought(st, handleCombat([st.e EXCEPT !.players[i].units[k] = moved], moved,
                               st.e.players[i].id), i, k)

UnitAct(st, i, k) == ActMoved(st, i, k, UnitMoved(st.e, st.e.players[i].units[k]))

(* A variant of the purge that lets the deprecated archetype stay. *)
PurgedDeadOnly(unit) == unit.hp <= 0

(* if (unit.hp <= 0) ... if (unit.type === UnitType.SOLDIER): the unit is  *)
(* spliced out of p.units and the loop continues                           *)
Purged(unit) == unit.hp <= 0 \/ unit.type = "SOLDIER"

(* for (let i = p.units.length - 1; i >= 0; i--) for player i *)
RECURSIVE UnitsLoop(_, _, _)
UnitsLoop(st, i, k) ==
    IF k = 0 THEN st
    ELSE IF Purged(st.e.players[i].units[k])
    THEN UnitsLoop([st EXCEPT !.e.players[i].units = SeqRemoveAt(@, k)], i, k - 1)
    ELSE UnitsLoop(UnitAct(st, i, k), i, k - 1)

(* this.players.forEach(p => ...) *)
RECURSIVE UnitsPlayers(_, _)
UnitsPlayers(st, i) ==
    IF i > Len(st.e.players) THEN st
    ELSE UnitsPlayers(UnitsLoop(st, i, Len(st.e.players[i].units)), i + 1)

(* draws: the offsets wander draws, used in turn *)
updateUnits(e, draws) == UnitsPlayers([e |-> e, kills |-> <<>>, draws |-> draws], 1)

---------------------------------------------------------------------------
(* Encirclement                                                            *)

(* The inner "for (const n of neighbors)" body of the flood fill; st holds  *)
(* the BFS queue, the visited set and the boundary set.                    *)
FloodVisit(e, owner, st, n) ==
    IF ~isValid(e, n[1], n[2]) THEN [st EXCEPT !.boundary = @ \cup {"EDGE"}]
    ELSE LET neighbor == e.tiles[n]
         IN  IF neighbor.type = "WATER" THEN [st EXCEPT !.boundary = @ \cup {"WATER"}]
             ELSE IF neighbor.ownerId = owner
                  THEN IF n \in st.visited THEN st
                       ELSE [st EXCEPT !.visited = @ \cup {n}, !.queue = Append(@, n)]
             ELSE IF neighbor.ownerId = NoOwner
                  THEN [st EXCEPT !.boundary = @ \cup {"NEUTRAL"}]
             ELSE [st EXCEPT !.boundary = @ \cup {neighbor.ownerId}]

(* while (head < queue.length): head counts the tiles already expanded     *)
RECURSIVE FloodFill(_, _, _, _)
FloodFill(e, owner, st, head) ==
    IF ~(head < Len(st.queue)) THEN st
    ELSE LET curr == st.queue[head + 1]
             s1 == FloodVisit(e, owner, st, <<curr[1], curr[2] - 1>>)
             s2 == FloodVisit(e, owner, s1, <<curr[1], curr[2] + 1>>)
             s3 == FloodVisit(e, owner, s2, <<curr[1] - 1, curr[2]>>)
             s4 == FloodVisit(e, owner, s3, <<curr[1] + 1, curr[2]>>)
         IN  FloodFill(e, owner, s4, head + 1)

(* The body of captureComponent's forEach up to the push: the tile leaves  *)
(* its owner's ownedTiles, takes the new owner and defense 10, and is      *)
(* pushed onto the new owner's ownedTiles.                                 *)
TileTaken(e, t, newOwnerId) ==
    LET e1 == RemoveFromOwner(e, t)
        ni == getPlayer(e, newOwnerId)
    IN  [e1 EXCEPT !.tiles[t].ownerId = newOwnerId,
                   !.tiles[t].defense = RInt(10),
                   !.players = IF ni = 0 THEN @
                               ELSE [@ EXCEPT ![ni].ownedTiles = Append(@, t)]]

(* the building is halved and stays its builder's *)
BuildingHalved(taken, t, newOwnerId) ==
    [taken EXCEPT !.tiles[t].building.hp =
                      RDivI(RInt(taken.tiles[t].building.maxHp), 2)]

(* if (t.building): the building changes hands at half its maxHp *)
BuildingTaken(taken, t, newOwnerId) ==
    [taken EXCEPT !.tiles[t].building.ownerId = newOwnerId,
                  !.tiles[t].building.hp =
                      RDivI(RInt(taken.tiles[t].building.maxHp), 2)]

RECURSIVE CaptureTiles(_, _, _, _)
CaptureTiles(e, comp, i, newOwnerId) ==
    IF i > Len(comp) THEN e
    ELSE IF HasBuilding(e.tiles[comp[i]])
         THEN CaptureTiles(BuildingTaken(TileTaken(e, comp[i], newOwnerId),
                                         comp[i], newOwnerId),
                           comp, i + 1, newOwnerId)
         ELSE CaptureTiles(TileTaken(e, comp[i], newOwnerId), comp, i + 1, newOwnerId)

(* A variant of the capture that leaves the buildings of the component at *)
(* the hp they had.                                                        *)
captureKeepsHp(e, comp, newOwnerId) ==
    [CaptureTiles(e, comp, 1, newOwnerId) EXCEPT
        !.tiles = [q \in DOMAIN @ |->
                     IF SeqContains(comp, q) /\ HasBuilding(e.tiles[q])
                     THEN [@[q] EXCEPT !.building.hp = e.tiles[q].building.hp]
                     ELSE @[q]]]

captureComponent(e, comp, newOwnerId) == CaptureTiles(e, comp, 1, newOwnerId)

(* The scan of checkEncirclement from the i-th tile of the row-major order; *)
(* caps collects the captured components.                                  *)
RECURSIVE EncircleScan(_, _, _, _)
EncircleScan(e, i, visited, caps) ==
    IF i > Len(RowMajor(e)) THEN [e |-> e, caps |-> caps]
    ELSE LET q == RowMajor(e)[i]
             tile == e.tiles[q]
             st == FloodFill(e, tile.ownerId,
                             [queue |-> <<q>>, visited |-> visited \cup {q},
                              boundary |-> {}], 0)
             capturerId == CHOOSE b \in st.boundary : TRUE
         IN  IF q \in visited THEN EncircleScan(e, i + 1, visited, caps)
             ELSE IF tile.type # "LAND" \/ tile.ownerId = NoOwner
                  THEN EncircleScan(e, i + 1, visited \cup {q}, caps)
             ELSE IF st.boundary \cap {"WATER", "EDGE", "NEUTRAL"} # {}
                  THEN EncircleScan(e, i + 1, st.visited, caps)
             ELSE IF Cardinality(st.boundary) = 1
                  THEN EncircleScan(captureComponent(e, st.queue, capturerId), i + 1,
                                    st.visited,
                                    Append(caps, [component |-> st.queue,
                                                  from |-> tile.ownerId,
                                                  to |-> capturerId]))
             ELSE EncircleScan(e, i + 1, st.visited, caps)

checkEncirclement(e) == EncircleScan(e, 1, {}, <<>>)

---------------------------------------------------------------------------
(* Economy, construction and territory regeneration                        *)

(* playerStats[id] after the map sweep of updateEconomy *)
EconomyStats(e, id) ==
    LET owned == {q \in DOMAIN e.tiles : e.tiles[q].ownerId = id}
        earning == SelectSeq(RowMajor(e),
                      LAMBDA q : /\ q \in owned
                                 /\ HasBuilding(e.tiles[q])
                                 /\ e.tiles[q].building.ownerId = e.tiles[q].ownerId
                                 /\ ~e.tiles[q].building.isUnderConstruction)
        inc(k) == SeqSum([i \in 1..Len(earning) |->
                            BUILDING_STATS[e.tiles[earning[i]].building.type].income[k]])
        xs == SelectSeq(RowMajor(e), LAMBDA q : q \in owned)
    IN  [gold |-> 1 + inc("GOLD"), wood |-> inc("WOOD"), stone |-> inc("STONE"),
         food |-> inc("FOOD"),
         maxPop |-> 10 * Cardinality(owned),
         landCount |-> Cardinality(owned),
         sumX |-> SeqSum([i \in 1..Len(xs) |-> xs[i][1]]),
         sumY |-> SeqSum([i \in 1..Len(xs) |-> xs[i][2]])]

(* stats.landCount / this.totalLandTiles > 0.8 *)
HoldsWinningShare(e, landCount) ==
    e.totalLandTiles > 0 /\ 5 * landCount > 4 * e.totalLandTiles

(* the "Apply calculated stats" body for one player *)
EconomyApply(e, p) ==
    LET stats == EconomyStats(e, p.id)
        gain == Res(stats.gold, stats.wood, stats.stone, stats.food)
        maxPopulation == Max2(100, stats.maxPop)
        \* 0.5 + population * 0.005, in thousandths
        growth == (PopScale \div 2) + ((p.population * 5) \div 1000)
        grown == IF p.population < maxPopulation * PopScale
                 THEN Min2(p.population + growth, maxPopulation * PopScale)
                 ELSE IF p.population > maxPopulation * PopScale
                 THEN p.population - 1 * PopScale
                 ELSE p.population
    IN  [p EXCEPT !.resources = AddRes(@, gain),
                  !.income = gain,
                  !.landArea = stats.landCount,
                  !.center = IF stats.landCount > 0
                             THEN [sumX |-> stats.sumX, sumY |-> stats.sumY,
                                   n |-> stats.landCount]
                             ELSE @,
                  !.maxPopulation = maxPopulation,
                  !.population = grown]

(* the last of the ranked AIs instead of the first *)
LossWinnerLast(e, ranked) ==
    IF Len(ranked) > 0 THEN e.players[ranked[Len(ranked)]].id ELSE "AI_WINNER"

(* topAI ? topAI.id : 'AI_WINNER', topAI the first of the AIs sorted by     *)
(* landCount, largest first                                                *)
LossWinner(e, ranked) ==
    IF Len(ranked) > 0 THEN e.players[ranked[1]].id ELSE "AI_WINNER"

updateEconomy(e) ==
    LET n == Len(e.players)
        land(i) == EconomyStats(e, e.players[i].id).landCount
        winners == {i \in 1..n : HoldsWinningShare(e, land(i))}
        e1 == [e EXCEPT
                 !.players = [i \in 1..n |-> EconomyApply(e, e.players[i])],
                 !.winnerId = IF winners = {} THEN @
                              ELSE e.players[CHOOSE i \in winners :
                                                \A j \in winners : j <= i].id]
        humanAlive == \E i \in 1..n : ~e.players[i].isAI /\ land(i) > 0
        ais == SelectSeq([i \in 1..n |-> i], LAMBDA i : e.players[i].isAI)
        negLand(i) == 0 - land(i)
        ranked == SortByKey(ais, negLand)
    IN  IF e.isGameActive /\ ~humanAlive /\ (\E i \in 1..n : ~e.players[i].isAI)
        THEN [e1 EXCEPT !.winnerId = LossWinner(e, ranked)]
        ELSE e1

(* A variant of the building pass that raises a site by two points. *)
updateBuildingsInHaste(e) ==
    [e EXCEPT !.tiles =
        [q \in DOMAIN e.tiles |->
            LET b == e.tiles[q].building
            IN  IF HasBuilding(e.tiles[q]) /\ b.isUnderConstruction
                THEN [e.tiles[q] EXCEPT
                        !.building.constructionProgress = @ + 2,
                        !.building.isUnderConstruction = ~(b.constructionProgress + 2 >= 100)]
                ELSE e.tiles[q]]]

updateBuildings(e) ==
    [e EXCEPT !.tiles =
        [q \in DOMAIN e.tiles |->
            LET b == e.tiles[q].building
            IN  IF HasBuilding(e.tiles[q]) /\ b.isUnderConstruction
                THEN [e.tiles[q] EXCEPT
                        !.building.constructionProgress = @ + 1,
                        !.building.isUnderConstruction = ~(b.constructionProgress + 1 >= 100)]
                ELSE e.tiles[q]]]

updateTerritory(e) ==
    [e EXCEPT !.tiles =
        [q \in DOMAIN e.tiles |->
            LET tile == e.tiles[q]
                oi == getPlayer(e, tile.ownerId)
                maxDefense == PopDefense(e.players[oi].population)
                regen == RAdd(tile.defense, <<1, 2>>)
            IN  IF tile.ownerId = NoOwner \/ oi = 0 THEN tile
                ELSE IF RLt(tile.defense, maxDefense)
                THEN [tile EXCEPT !.defense = IF RLt(maxDefense, regen)
                                              THEN maxDefense ELSE regen]
                ELSE IF RLt(maxDefense, tile.defense)
                THEN [tile EXCEPT !.defense = maxDefense]
                ELSE tile]]

---------------------------------------------------------------------------
(* The computer players.  Math.random makes each pass a choice; the        *)
(* operators return the set of engines the pass can leave behind.          *)

(* tryBuildAI: twenty random tiles, the first buildable one is built on    *)
tryBuildAI(e, i, type) ==
    LET id == e.players[i].id
        all == DOMAIN e.tiles
        ok == {q \in all : canBuild(e, id, type, q[1], q[2])}
    IN  {placeBuilding(e, id, type, q[1], q[2], FALSE).e : q \in ok}
        \cup (IF ok # all THEN {e} ELSE {})

(* borderCandidates of aiExpand *)
BorderCandidates(e, i) ==
    LET id == e.players[i].id
        scanStep == IF e.players[i].landArea < 50 THEN 1 ELSE 4
        external(q) ==
            \E k \in 1..Len(Neighbors4) :
                LET n == <<q[1] + Neighbors4[k][1], q[2] + Neighbors4[k][2]>>
                IN  /\ isValid(e, n[1], n[2])
                    /\ e.tiles[n].type = "LAND"
                    /\ e.tiles[n].ownerId # id
    IN  {q \in DOMAIN e.tiles : /\ q[1] % scanStep = 0 /\ q[2] % scanStep = 0
                                /\ e.tiles[q].ownerId = id
                                /\ external(q)}

(* validFinalTargets without the filter that spares the humans *)
ExpandTargetsAny(e, i, src) ==
    LET id == e.players[i].id
        possible == {n \in {<<src[1] + Neighbors4[k][1], src[2] + Neighbors4[k][2]>> :
                               k \in 1..Len(Neighbors4)} :
                       /\ isValid(e, n[1], n[2])
                       /\ e.tiles[n].type = "LAND"
                       /\ e.tiles[n].ownerId # id}
        neutrals == {n \in possible : e.tiles[n].ownerId = NoOwner}
    IN  IF e.players[i].aiType = "CAMP" /\ neutrals # {} THEN neutrals ELSE possible

(* validFinalTargets of aiExpand for the border tile src *)
ExpandTargets(e, i, src) ==
    LET id == e.players[i].id
        possible == {n \in {<<src[1] + Neighbors4[k][1], src[2] + Neighbors4[k][2]>> :
                               k \in 1..Len(Neighbors4)} :
                       /\ isValid(e, n[1], n[2])
                       /\ e.tiles[n].type = "LAND"
                       /\ e.tiles[n].ownerId # id
                       /\ LET oi == getPlayer(e, e.tiles[n].ownerId)
                          IN  ~(e.tiles[n].ownerId # NoOwner /\ oi # 0
                                /\ ~e.players[oi].isAI)}
        neutrals == {n \in possible : e.tiles[n].ownerId = NoOwner}
    IN  IF e.players[i].aiType = "CAMP" /\ neutrals # {} THEN neutrals ELSE possible

aiExpand(e, i, percent) ==
    LET cands == BorderCandidates(e, i)
        barren == {src \in cands : ExpandTargets(e, i, src) = {}}
    IN  IF cands = {} THEN {e}
        ELSE {distributeExpansion(e, e.players[i].id, t[1], t[2], percent) :
                 t \in UNION {ExpandTargets(e, i, src) : src \in cands}}
             \cup (IF barren # {} THEN {e} ELSE {})

(* the body of updateAI for player i *)
AIStep(e, i) ==
    LET ai == e.players[i]
        built == IF ai.resources["GOLD"] > 1000 THEN tryBuildAI(e, i, "CASTLE")
                 ELSE IF ai.resources["WOOD"] > 200
                 THEN {e} \cup tryBuildAI(e, i, "WOODCUTTER")
                 ELSE {e}
    IN  IF ~ai.isAI THEN {e}
        ELSE IF ai.aiType = "KINGDOM"
        THEN UNION {IF b.players[i].population > 25 * PopScale
                    THEN {b} \cup aiExpand(b, i, 20) ELSE {b} : b \in built}
        ELSE IF ai.aiType = "CAMP"
        THEN IF ai.population > 2 * PopScale THEN {e} \cup aiExpand(e, i, 50) ELSE {e}
        ELSE {e}

RECURSIVE AILoop(_, _)
AILoop(es, i) ==
    IF \A e \in es : i > Len(e.players) THEN es
    ELSE AILoop(UNION {AIStep(e, i) : e \in es}, i + 1)

updateAI(e) == AILoop({e}, 1)

---------------------------------------------------------------------------
(* update(dt): one tick.  Each result carries the engine after the tick and *)
(* what the passes did: buildings destroyed by units, waves resolved,       *)
(* regions captured by encirclement, and whether the gated passes ran.      *)

(* "8. WipeOut Queue"; t is the engine after the passes before it *)
AfterTerritory(kills, logs, caps, t) ==
    [e |-> processWipeOutQueue(t),
     log |-> [kills |-> kills, waves |-> logs, caps |-> caps,
              economy |-> t.tickCount % 10 = 0,
              territory |-> t.tickCount % 20 = 0,
              encirclement |-> t.tickCount % 50 = 0,
              queued |-> Len(t.wipeOutQueue)]]

(* "7. Territory Pressure" *)
AfterEncirclement(kills, logs, c) ==
    AfterTerritory(kills, logs, c.caps,
                   IF c.e.tickCount % 20 = 0 THEN updateTerritory(c.e) ELSE c.e)

(* "6. Encirclement check" *)
AfterBuildings(kills, logs, b) ==
    AfterEncirclement(kills, logs,
                      IF b.tickCount % 50 = 0 THEN checkEncirclement(b)
                      ELSE [e |-> b, caps |-> <<>>])

(* "5. Building Construction" *)
AfterAttacks(kills, a) == AfterBuildings(kills, a.logs, updateBuildings(a.e))

(* A variant of the tick in which the waves travel before the reserves are *)
(* dispatched.                                                             *)
AfterUnitsTravelFirst(u, speeds) ==
    LET a == updateAttacks(u.e)
    IN  AfterAttacks(u.kills, [e |-> processMilitaryDispatch(a.e, speeds), logs |-> a.logs])

(* "3." dispatch and "4. Attacks" *)
AfterUnits(u, speeds) ==
    AfterAttacks(u.kills, updateAttacks(processMilitaryDispatch(u.e, speeds)))

(* "2. Units Movement & Combat" and all that follows *)
UpdateRest(e1, wanders, speeds) == AfterUnits(updateUnits(e1, wanders), speeds)

(* the economy and the AIs on every twentieth tick only *)
PlannedRarely(ticked) ==
    IF ticked.tickCount % 20 = 0 THEN updateAI(updateEconomy(ticked)) ELSE {ticked}

(* "1. Economy": the engines the gated passes can leave *)
Planned(ticked) ==
    IF ticked.tickCount % 10 = 0 THEN updateAI(updateEconomy(ticked)) ELSE {ticked}

update(e, wanders, speeds) ==
    {UpdateRest(e1, wanders, speeds) : e1 \in Planned([e EXCEPT !.tickCount = @ + 1])}

---------------------------------------------------------------------------
(* Construction: init(roster, mapData)                                     *)

(* loadMap, packed stream [type, elevation, type, elevation, ...]          *)
loadMap(e, mapData) ==
    LET w == mapData.width
        h == mapData.height
        n == Len(mapData.tiles) \div 2
        cell(idx) == LET typeCode == mapData.tiles[2 * idx + 1]
                         elevation == mapData.tiles[2 * idx + 2]
                         type == IF typeCode = 1 THEN "LAND" ELSE "WATER"
                     IN  [type |-> type, elevation |-> elevation,
                          ownerId |-> NoOwner, building |-> NoBuilding,
                          defense |-> IF type = "LAND" THEN RInt(1) ELSE RInt(0)]
    IN  [e EXCEPT
           !.config = [mapWidth |-> w, mapHeight |-> h],
           !.tiles = [q \in (0..(w - 1)) \X (0..(h - 1)) |-> cell(q[2] * w + q[1])],
           !.totalLandTiles =
               Cardinality({idx \in 0..(n - 1) : mapData.tiles[2 * idx + 1] = 1})]

(* generateMap.  Heights are in thousandths; the product of noise and mask *)
(* is in millionths.  fbm(x, y, 6, 0.5, 0.02, seed) is a value in [0, 1]   *)
(* fixed by the random seed; the model takes it from a field per seed.     *)
fbm(x, y, seed) == (seed + 40 * x + 25 * y) % 1001

(* "2. Apply Edge Mask": 1 inside 80% of the inscribed radius, fading      *)
(* linearly to 0 at the radius.  dist4 is four times the squared distance  *)
(* of the tile from (w / 2, h / 2).                                        *)
EdgeMask(dist, maxDist) ==
    IF dist * 10 > maxDist * 8
    THEN Max2(0, 1000 - ((dist * 10 - maxDist * 8) * 1000) \div (maxDist * 2))
    ELSE 1000

MaskAt(w, h, x, y) ==
    EdgeMask(ISqrt(((2 * x - w) * (2 * x - w) + (2 * y - h) * (2 * y - h)) * 250000),
             Min2(w, h) * 500)

(* A variant of the banding without the "+ 1" and the lower clamp. *)
LandBandFromZero(elevationVal) ==
    Min2(15, (15 * (elevationVal - 350000)) \div 650000)

(* "Map remaining range to 1-15" *)
LandBand(elevationVal) ==
    Max2(1, Min2(15, (15 * (elevationVal - 350000)) \div 650000 + 1))

(* "3. Determine Tile Type & Elevation" and the pushed tile *)
GeneratedTile(elevationVal) ==
    IF elevationVal > 350000
    THEN [type |-> "LAND", elevation |-> LandBand(elevationVal),
          ownerId |-> NoOwner, building |-> NoBuilding, defense |-> RInt(1)]
    ELSE [type |-> "WATER", elevation |-> 0,
          ownerId |-> NoOwner, building |-> NoBuilding, defense |-> RInt(0)]

GeneratedTiles(w, h, seed) ==
    [q \in (0..(w - 1)) \X (0..(h - 1)) |->
        GeneratedTile(fbm(q[1], q[2], seed) * MaskAt(w, h, q[1], q[2]))]

Generated(e, grid) ==
    [e EXCEPT !.tiles = grid,
              !.totalLandTiles =
                  Cardinality({q \in DOMAIN grid : grid[q].type = "LAND"})]

generateMap(e, seed) ==
    Generated(e, GeneratedTiles(e.config.mapWidth, e.config.mapHeight, seed))

setupPlayers(e, roster) ==
    [e EXCEPT !.players =
        [i \in 1..Len(roster) |->
            createPlayer(roster[i].id, roster[i].isAI, roster[i].aiType)]]

ValidSpawns(e) == {q \in DOMAIN e.tiles : isValidSpawn(e, q[1], q[2])}

(* One bot's base at bestSpot (spawnBotBases, the body of "if (bestSpot)") *)
SpawnBotAt(e, i, spot) ==
    LET p == e.players[i]
        camp == LET c == claimRadius(e, p.id, spot[1], spot[2], 2)
                IN  [c.e EXCEPT !.players[i].maxPopulation = c.count * 10,
                                !.players[i].population = 10 * PopScale]
        kingdom == LET b == placeBuilding(e, p.id, "KINGDOM", spot[1], spot[2], TRUE).e
                       c == claimRadius(b, p.id, spot[1], spot[2], 4)
                       m == [c.e EXCEPT !.players[i].maxPopulation = c.count * 10]
                   IN  ReinforceCore(m, p.id, spot[1], spot[2])
    IN  IF p.aiType = "CAMP" THEN camp ELSE kingdom

(* spawnBotBases from bot i on.  bestSpot is the best of 30 random trial    *)
(* placements: any valid spawn, or none when every trial was invalid.      *)
RECURSIVE spawnBotBases(_, _)
spawnBotBases(e, i) ==
    IF i > Len(e.players) THEN {e}
    ELSE IF ~e.players[i].isAI THEN spawnBotBases(e, i + 1)
    ELSE spawnBotBases(e, i + 1)
         \cup UNION {spawnBotBases(SpawnBotAt(e, i, spot), i + 1) : spot \in ValidSpawns(e)}

(* The engine as the constructor leaves it, before init loads a map        *)
NewEngine ==
    [config |-> [mapWidth |-> 0, mapHeight |-> 0], tiles |-> <<>>, players |-> <<>>,
     attacks |-> <<>>, wipeOutQueue |-> <<>>, tickCount |-> 0, winnerId |-> NoOwner,
     totalLandTiles |-> 0, isGameActive |-> FALSE]

(* init(roster, mapData): the set of engines it can leave *)
init(e, roster, mapData) ==
    LET e1 == [e EXCEPT !.winnerId = NoOwner, !.isGameActive = FALSE]
        e2 == setupPlayers(loadMap(e1, mapData), roster)
    IN  {[b EXCEPT !.attacks = <<>>, !.tickCount = 0] : b \in spawnBotBases(e2, 1)}

(* The constructor with a config: the map is generated at once *)
constructed(cfg, seed) == generateMap([NewEngine EXCEPT !.config = cfg], seed)

(* init(roster) without map data: the branch that generates the map anew *)
initGenerated(e, roster, seed) ==
    LET e1 == [e EXCEPT !.winnerId = NoOwner, !.isGameActive = FALSE]
        e2 == setupPlayers(generateMap(e1, seed), roster)
    IN  {[b EXCEPT !.attacks = <<>>, !.tickCount = 0] : b \in spawnBotBases(e2, 1)}

---------------------------------------------------------------------------
(* Bounds of the model                                                     *)

MapW == 12

MapH == 5

MaxCmds == 2

MaxTick == 3

(* The map the roster plays on: land of elevation 5, two water tiles on the *)
(* north shore, one steep tile and one hill.                               *)
TerrainAt(x, y) ==
    IF y = 0 /\ x \in {5, 6} THEN <<0, 0>>
    ELSE IF x = 5 /\ y = MapH - 1 THEN <<1, 13>>
    ELSE IF x = 6 /\ y = MapH - 1 THEN <<1, 8>>
    ELSE <<1, 5>>

MainMap ==
    [width |-> MapW, height |-> MapH,
     tiles |-> [k \in 1..(2 * MapW * MapH) |->
                  TerrainAt(((k - 1) \div 2) % MapW, ((k - 1) \div 2) \div MapW)
                           [((k - 1) % 2) + 1]]]

MainRoster == <<[id |-> "p1", isAI |-> FALSE, aiType |-> "NONE"],
                [id |-> "p2", isAI |-> TRUE, aiType |-> "KINGDOM"]>>

---------------------------------------------------------------------------
(* History: the last operation, its arguments and what it reported.  cmds  *)
(* counts the commands issued so far.                                      *)

NoLog == <<>>

H(op, pid, type, x, y, ok, threw, cmds, log) ==
    [op |-> op, pid |-> pid, type |-> type, x |-> x, y |-> y, ok |-> ok,
     threw |-> threw, cmds |-> cmds, log |-> log]

InitEngine(e) ==
    /\ config = e.config
    /\ tiles = e.tiles
    /\ players = e.players
    /\ attacks = e.attacks
    /\ wipeOutQueue = e.wipeOutQueue
    /\ tickCount = e.tickCount
    /\ winnerId = e.winnerId
    /\ totalLandTiles = e.totalLandTiles
    /\ isGameActive = e.isGameActive

Init ==
    /\ \E e \in init(NewEngine, MainRoster, MainMap) : InitEngine(e)
    /\ hist = H("init", "", "", 0, 0, TRUE, FALSE, 0, NoLog)

CmdPlayers == {"p1", "px"}

CmdSpawns == {<<2, 2>>, <<MapW - 3, 2>>, <<5, 2>>}

CmdTiles == {<<2, 2>>, <<3, 2>>, <<5, 0>>, <<MapW - 3, 2>>, <<MapW, 1>>}

CmdBuildings == {"FARM", "PIER"}

CmdUnits == {"SWORDSMAN", "BOAT"}

SpawnHumanBase(pid, q) ==
    /\ hist.cmds < MaxCmds
    /\ LET r == spawnHumanBase(Eng, pid, q[1], q[2])
       IN  /\ SetEng(r.e)
           /\ hist' = H("spawnHumanBase", pid, "", q[1], q[2], r.ok, FALSE,
                        hist.cmds + 1, NoLog)

PlaceBuilding(pid, type, q) ==
    /\ hist.cmds < MaxCmds
    /\ LET r == placeBuilding(Eng, pid, type, q[1], q[2], FALSE)
       IN  /\ SetEng(r.e)
           /\ hist' = H("placeBuilding", pid, type, q[1], q[2], TRUE, r.threw,
                        hist.cmds + 1, NoLog)

SpawnUnit(pid, type, q) ==
    /\ hist.cmds < MaxCmds
    /\ SetEng(spawnUnit(Eng, pid, type, q[1], q[2]))
    /\ hist' = H("spawnUnit", pid, type, q[1], q[2], TRUE, FALSE, hist.cmds + 1, NoLog)

CmdPercents == {50}

CmdUnitIds == {1}

WaveSpeeds == {200, 250}

WanderOffsets == {<<1000, 0>>, <<-1500, 500>>}

DistributeExpansion(pid, q, percentage) ==
    /\ hist.cmds < MaxCmds
    /\ SetEng(distributeExpansion(Eng, pid, q[1], q[2], percentage))
    /\ hist' = H("distributeExpansion", pid, "", q[1], q[2], TRUE, FALSE,
                 hist.cmds + 1, <<percentage>>)

MoveUnit(pid, unitId, q) ==
    /\ hist.cmds < MaxCmds
    /\ SetEng(moveUnit(Eng, pid, unitId, q[1], q[2]))
    /\ hist' = H("moveUnit", pid, "", q[1], q[2], TRUE, FALSE, hist.cmds + 1, NoLog)

StartMatch ==
    /\ ~isGameActive
    /\ SetEng(startMatch(Eng))
    /\ hist' = H("startMatch", "", "", 0, 0, TRUE, FALSE, hist.cmds, NoLog)

Update ==
    /\ tickCount < MaxTick
    /\ \E sp \in WaveSpeeds, wd \in WanderOffsets :
          \E r \in update(Eng, <<wd>>, <<sp>>) :
             /\ SetEng(r.e)
             /\ hist' = H("update", "", "", 0, 0, TRUE, FALSE, hist.cmds, r.log)

Next ==
    \/ \E pid \in CmdPlayers, q \in CmdSpawns : SpawnHumanBase(pid, q)
    \/ \E pid \in CmdPlayers, type \in CmdBuildings, q \in CmdTiles :
          PlaceBuilding(pid, type, q)
    \/ \E pid \in CmdPlayers, type \in CmdUnits, q \in CmdTiles :
          SpawnUnit(pid, type, q)
    \/ \E pid \in CmdPlayers, q \in CmdTiles, pc \in CmdPercents :
          DistributeExpansion(pid, q, pc)
    \/ \E pid \in CmdPlayers, id \in CmdUnitIds, q \in CmdTiles : MoveUnit(pid, id, q)
    \/ StartMatch
    \/ Update

Spec == Init /\ [][Next]_vars

---------------------------------------------------------------------------
(* Mid-game positions.  A match that has run for a while: two players with *)
(* settled territory, buildings worn down by earlier fighting, units at    *)
(* the front and waves in flight.  The passes of update are stepped one at *)
(* a time from these positions, next to whole ticks.                       *)

WarW == 5

WarH == 5

MaxSteps == 3

WarTerrain(x, y) == IF x = 0 /\ y = 0 THEN <<0, 0>> ELSE <<1, 5>>

WarMap ==
    [width |-> WarW, height |-> WarH,
     tiles |-> [k \in 1..(2 * WarW * WarH) |->
                  WarTerrain(((k - 1) \div 2) % WarW, ((k - 1) \div 2) \div WarW)
                            [((k - 1) % 2) + 1]]]

WarPopulation == 400

(* The board after loadMap and setupPlayers, the match started, with the   *)
(* tiles handed out by owner(q) as captures would have left them           *)
Settled(owner(_)) ==
    LET e0 == startMatch(setupPlayers(loadMap(NewEngine, WarMap), MainRoster))
        mine(id) == SelectSeq(RowMajor(e0), LAMBDA q : owner(q) = id)
    IN  [e0 EXCEPT
           !.tiles = [q \in DOMAIN e0.tiles |->
                        [e0.tiles[q] EXCEPT
                           !.ownerId = owner(q),
                           !.defense = IF owner(q) = NoOwner THEN @
                                       ELSE PopDefense(WarPopulation * PopScale)]],
           !.players = [i \in 1..Len(e0.players) |->
                          LET own == mine(e0.players[i].id)
                          IN  [e0.players[i] EXCEPT
                                 !.population = WarPopulation * PopScale,
                                 !.maxPopulation = Max2(100, 10 * Len(own)),
                                 !.landArea = Len(own),
                                 !.center = IF Len(own) = 0 THEN @
                                            ELSE [sumX |-> SeqSum([k \in 1..Len(own) |-> own[k][1]]),
                                                  sumY |-> SeqSum([k \in 1..Len(own) |-> own[k][2]]),
                                                  n |-> Len(own)],
                                 !.ownedTiles = own]]]

(* a finished building of ownerId on q, worn down to hp *)
WithBuilding(e, q, type, ownerId, hp) ==
    [e EXCEPT !.tiles[q].building =
        [type |-> type, ownerId |-> ownerId, hp |-> RInt(hp),
         maxHp |-> BUILDING_STATS[type].maxHp,
         isUnderConstruction |-> FALSE, constructionProgress |-> 100]]

(* a unit of player i standing on q, as spawnUnit makes it *)
WithUnit(e, i, type, q) ==
    LET stats == UNIT_STATS[type]
    IN  [e EXCEPT !.players[i].units = Append(@,
            [id |-> NextUnitId(e), type |-> type, ownerId |-> e.players[i].id,
             x |-> q[1] * CoordScale, y |-> q[2] * CoordScale,
             hasTarget |-> FALSE, targetX |-> 0, targetY |-> 0,
             hasCommand |-> FALSE, idleTicks |-> 0,
             hp |-> stats.hp, maxHp |-> stats.hp, attack |-> stats.attack,
             speed |-> stats.speed, range |-> stats.range])]

(* a wave of ownerId bound for q, `short` thousandths of a tile left of it *)
WithWave(e, ownerId, q, power, short) ==
    [e EXCEPT !.attacks = Append(@,
        [ownerId |-> ownerId, x |-> q[1] * CoordScale - short, y |-> q[2] * CoordScale,
         targetX |-> q[1], targetY |-> q[2], power |-> RInt(power), speed |-> 200])]

(* Two fronts facing each other over a neutral strip: p1 holds the two     *)
(* western columns, p2 the two eastern ones.                               *)
FrontOwner(q) ==
    IF WarTerrain(q[1], q[2])[1] = 0 THEN NoOwner
    ELSE IF q[1] <= 1 THEN "p1"
    ELSE IF q[1] >= WarW - 2 THEN "p2"
    ELSE NoOwner

ScnFront ==
    LET a == Settled(FrontOwner)
        b == WithBuilding(a, <<0, 2>>, "KINGDOM", "p1", BUILDING_STATS["KINGDOM"].maxHp)
        c == WithBuilding(b, <<0, 3>>, "FARM", "p1", 10)
        d == WithBuilding(c, <<WarW - 1, 2>>, "KINGDOM", "p2", 15)
        f == WithUnit(d, 1, "SWORDSMAN", <<WarW - 2, 2>>)
        g == WithUnit(f, 2, "HORSE", <<1, 3>>)
        h == WithWave(g, "p1", <<2, 1>>, 30, 0)
    IN  WithWave(h, "p1", <<2, 1>>, 20, 300)

(* p2 holds the rim of the map and the middle, p1 a closed ring between    *)
InCore(q) == q[1] >= 2 /\ q[1] <= WarW - 3 /\ q[2] >= 2 /\ q[2] <= WarH - 3

InRing(q) ==
    /\ q[1] >= 1 /\ q[1] <= WarW - 2 /\ q[2] >= 1 /\ q[2] <= WarH - 2
    /\ ~InCore(q)

NestedOwner(q) ==
    IF WarTerrain(q[1], q[2])[1] = 0 THEN NoOwner
    ELSE IF InRing(q) THEN "p1" ELSE "p2"

ScnNested == WithBuilding(Settled(NestedOwner), <<2, 2>>, "FARM", "p2", 200)

(* p1 holds everything but a p2 enclave in the middle *)
EnclaveOwner(q) ==
    IF WarTerrain(q[1], q[2])[1] = 0 THEN NoOwner
    ELSE IF InCore(q) THEN "p2" ELSE "p1"

ScnEnclave == WithBuilding(Settled(EnclaveOwner), <<2, 2>>, "FARM", "p2", 200)

(* p1 holds the first four fifths of the land, row by row, and a pier on   *)
(* the water next to it; p2 holds the rest                                 *)
LandRank(q) == Cardinality({r \in (0..(WarW - 1)) \X (0..(WarH - 1)) :
                              /\ WarTerrain(r[1], r[2])[1] = 1
                              /\ r[2] * WarW + r[1] <= q[2] * WarW + q[1]})

EndOwner(q) ==
    IF WarTerrain(q[1], q[2])[1] = 0 THEN "p1"
    ELSE IF 5 * LandRank(q) <= 4 * (WarW * WarH - 1) THEN "p1" ELSE "p2"

ScnEnd ==
    LET a == Settled(EndOwner)
        b == WithBuilding(a, <<0, 0>>, "PIER", "p1", BUILDING_STATS["PIER"].maxHp)
        c == WithBuilding(b, <<1, 1>>, "KINGDOM", "p1", BUILDING_STATS["KINGDOM"].maxHp)
    IN  WithBuilding(c, <<WarW - 1, WarH - 1>>, "KINGDOM", "p2",
                     BUILDING_STATS["KINGDOM"].maxHp)

Scenarios == {ScnFront, ScnNested, ScnEnclave, ScnEnd}

InitWar ==
    /\ \E e \in Scenarios : InitEngine(e)
    /\ hist = H("init", "", "", 0, 0, TRUE, FALSE, 0, NoLog)

WarPlayers == {"p1", "p2"}

WarTargets == {<<0, 3>>, <<2, 1>>, <<2, 2>>, <<WarW - 2, 1>>}

WarPowers == {8, 50, 3000}

WarSites == {<<2, 1>>, <<1, 1>>}

Stepped(op, pid, type, q, log) ==
    hist' = H(op, pid, type, q[1], q[2], TRUE, FALSE, hist.cmds + 1, log)

(* A wave sent by processMilitaryDispatch reaches the tile it was sent to; *)
(* dispatch aims only at tiles its sender does not hold.                   *)
WaveArrives(pid, q, power) ==
    /\ hist.cmds < MaxSteps
    /\ tiles[q].ownerId # pid
    /\ SetEng(WithWave(Eng, pid, q, power, 0))
    /\ Stepped("createAttack", pid, "", q, NoLog)

(* a player builds where canBuild allows it *)
Build(pid, type, q) ==
    /\ hist.cmds < MaxSteps
    /\ canBuild(Eng, pid, type, q[1], q[2])
    /\ SetEng(placeBuilding(Eng, pid, type, q[1], q[2], FALSE).e)
    /\ Stepped("build", pid, type, q, NoLog)

UpdateUnits ==
    /\ hist.cmds < MaxSteps
    /\ \E wd \in WanderOffsets :
          LET r == updateUnits(Eng, <<wd>>)
          IN  SetEng(r.e) /\ Stepped("updateUnits", "", "", <<0, 0>>, r.kills)

UpdateAttacks ==
    /\ hist.cmds < MaxSteps
    /\ LET r == updateAttacks(Eng)
       IN  SetEng(r.e) /\ Stepped("updateAttacks", "", "", <<0, 0>>, r.logs)

CheckEncirclement ==
    /\ hist.cmds < MaxSteps
    /\ LET r == checkEncirclement(Eng)
       IN  SetEng(r.e) /\ Stepped("checkEncirclement", "", "", <<0, 0>>, r.caps)

UpdateEconomy ==
    /\ hist.cmds < MaxSteps
    /\ SetEng(updateEconomy(Eng))
    /\ Stepped("updateEconomy", "", "", <<0, 0>>, NoLog)

ProcessWipeOutQueue ==
    /\ hist.cmds < MaxSteps
    /\ SetEng(processWipeOutQueue(Eng))
    /\ Stepped("processWipeOutQueue", "", "", <<0, 0>>, NoLog)

Tick ==
    /\ hist.cmds < MaxSteps
    /\ \E sp \in WaveSpeeds, wd \in WanderOffsets :
          \E r \in update(Eng, <<wd>>, <<sp>>) :
             SetEng(r.e) /\ Stepped("update", "", "", <<0, 0>>, r.log)

NextWar ==
    \/ \E pid \in WarPlayers, q \in WarTargets, pw \in WarPowers : WaveArrives(pid, q, pw)
    \/ \E q \in WarSites : Build("p1", "FARM", q)
    \/ UpdateUnits
    \/ UpdateAttacks
    \/ CheckEncirclement
    \/ UpdateEconomy
    \/ ProcessWipeOutQueue
    \/ Tick

SpecWar == InitWar /\ [][NextWar]_vars

---------------------------------------------------------------------------
(* The same commands and ticks on a generated map                          *)

GenW == 8

GenH == 8

GenSeeds == {300, 600}

(* the middle of the map, its water corner, a place off the map *)
GenTiles == {<<GenW \div 2, GenH \div 2>>, <<0, 0>>, <<GenW, 1>>}

InitGen ==
    /\ \E s0 \in GenSeeds, s1 \in GenSeeds :
          \E e \in initGenerated(constructed([mapWidth |-> GenW, mapHeight |-> GenH], s0),
                                  MainRoster, s1) : InitEngine(e)
    /\ hist = H("init", "", "", 0, 0, TRUE, FALSE, 0, NoLog)

NextGen ==
    \/ \E q \in GenTiles : SpawnHumanBase("p1", q)
    \/ \E type \in CmdBuildings, q \in GenTiles : PlaceBuilding("p1", type, q)
    \/ \E type \in CmdUnits, q \in GenTiles : SpawnUnit("p1", type, q)
    \/ \E q \in GenTiles, pc \in CmdPercents : DistributeExpansion("p1", q, pc)
    \/ \E id \in CmdUnitIds, q \in GenTiles : MoveUnit("p1", id, q)
    \/ StartMatch
    \/ Update

SpecGen == InitGen /\ [][NextGen]_vars

---------------------------------------------------------------------------
(* Draining a long wipe-out queue                                          *)

(* p1 has slain p2's king on the front board; Rounds is how many times the *)
(* wipe-out of p2 was queued before the first drain.                       *)
DrainRounds == {5, 100, 150, 200, 400}

Queued(e, once, rounds) ==
    [e EXCEPT !.wipeOutQueue =
        [i \in 1..(rounds * Len(once)) |-> once[((i - 1) % Len(once)) + 1]]]

ScnQueued(rounds) == Queued(ScnFront, queueWipeOut(ScnFront, 1, 2).wipeOutQueue, rounds)

(* hist.x keeps the length the queue started with, hist.cmds the drains *)
InitDrain ==
    /\ \E rounds \in DrainRounds : InitEngine(ScnQueued(rounds))
    /\ hist = H("init", "", "", Len(wipeOutQueue), 0, TRUE, FALSE, 0, NoLog)

DrainTick ==
    /\ wipeOutQueue # <<>>
    /\ SetEng(processWipeOutQueue(Eng))
    /\ hist' = H("processWipeOutQueue", "", "", hist.x, Len(wipeOutQueue), TRUE, FALSE,
                 hist.cmds + 1, NoLog)

SpecDrain == InitDrain /\ [][DrainTick]_vars

---------------------------------------------------------------------------
(* Boards on which the humans are out, or nearly                           *)

ThreeRoster == <<[id |-> "p1", isAI |-> FALSE, aiType |-> "HUMAN"],
                 [id |-> "p2", isAI |-> TRUE, aiType |-> "KINGDOM"],
                 [id |-> "p3", isAI |-> TRUE, aiType |-> "CAMP"]>>

BotRoster == SubSeq(ThreeRoster, 2, 3)

SoloRoster == SubSeq(ThreeRoster, 1, 1)

(* The board after loadMap and setupPlayers with the tiles handed out as   *)
(* owners[q] says, the match started or not                                *)
Held(roster, owners, active) ==
    LET e0 == setupPlayers(loadMap(NewEngine, WarMap), roster)
        mine(id) == SelectSeq(RowMajor(e0), LAMBDA q : owners[q] = id)
    IN  [e0 EXCEPT
           !.isGameActive = active,
           !.tiles = [q \in DOMAIN e0.tiles |->
                        [e0.tiles[q] EXCEPT
                           !.ownerId = owners[q],
                           !.defense = IF owners[q] = NoOwner THEN @
                                       ELSE PopDefense(WarPopulation * PopScale)]],
           !.players = [i \in 1..Len(e0.players) |->
                          LET own == mine(e0.players[i].id)
                          IN  [e0.players[i] EXCEPT
                                 !.population = WarPopulation * PopScale,
                                 !.maxPopulation = Max2(100, 10 * Len(own)),
                                 !.landArea = Len(own),
                                 !.ownedTiles = own]]]

WarBoard == (0..(WarW - 1)) \X (0..(WarH - 1))

(* who holds the columns west of the line, who the rest; water is nobody's *)
Split(west, line, east) ==
    [q \in WarBoard |-> IF WarTerrain(q[1], q[2])[1] = 0 THEN NoOwner
                        ELSE IF q[1] < line THEN west ELSE east]

(* column 1 is p2's, column 2 is p3's, and p1 holds what last is *)
Level(last) ==
    [q \in WarBoard |-> IF q \in last THEN "p1"
                        ELSE IF q[1] = 1 THEN "p2"
                        ELSE IF q[1] = 2 THEN "p3" ELSE NoOwner]

LossBoards ==
    {Held(ThreeRoster, owners, active) :
        owners \in {Split("p3", 2, "p2"), Split("p2", 2, "p3"), Split("p3", WarW, "p3"),
                    Level({}), Level({<<0, 3>>}), Split(NoOwner, 0, NoOwner)},
        active \in BOOLEAN}
    \cup {Held(BotRoster, Split("p2", 2, "p3"), active) : active \in BOOLEAN}
    \cup {Held(SoloRoster, Split(NoOwner, 0, NoOwner), active) : active \in BOOLEAN}

InitLoss ==
    /\ \E e \in LossBoards : InitEngine(e)
    /\ hist = H("init", "", "", 0, 0, TRUE, FALSE, 0, NoLog)

NextLoss ==
    \/ \E pid \in {"p2", "p3"}, q \in {<<0, 3>>, <<1, 3>>} : WaveArrives(pid, q, 3000)
    \/ UpdateAttacks
    \/ UpdateEconomy
    \/ StartMatch

SpecLoss == InitLoss /\ [][NextLoss]_vars

---------------------------------------------------------------------------
(* Founding a base on a small loaded map                                   *)

SpawnW == 6

SpawnH == 5

(* what the map has in its corner: plain land, water, a peak, a high hill *)
SpawnCorners == {<<1, 5>>, <<0, 0>>, <<1, 13>>, <<1, 12>>}

SpawnMap(corner) ==
    [width |-> SpawnW, height |-> SpawnH,
     tiles |-> [k \in 1..(2 * SpawnW * SpawnH) |->
                  (IF (k - 1) \div 2 = 0 THEN corner ELSE <<1, 5>>)[((k - 1) % 2) + 1]]]

SpawnSites == {<<2, 2>>, <<3, 2>>, <<1, 2>>, <<2, 3>>}

InitSpawn ==
    /\ \E corner \in SpawnCorners :
          \E e \in init(NewEngine, SoloRoster, SpawnMap(corner)) : InitEngine(e)
    /\ hist = H("init", "", "", 0, 0, TRUE, FALSE, 0, NoLog)

NextSpawn ==
    \/ \E pid \in CmdPlayers, q \in SpawnSites : SpawnHumanBase(pid, q)
    \/ PlaceBuilding("p1", "FARM", <<0, 1>>)

SpecSpawn == InitSpawn /\ [][NextSpawn]_vars

---------------------------------------------------------------------------
(* Ticks around the multiples of 10, 20 and 50                             *)

(* The enclave board with work for every pass: a farm of p1 going up, a    *)
(* wave of p1 three tiles from the enclave, a captured tile of p1 still at *)
(* the defense of its capture, and reserves of p1 ordered against p2.      *)
ClockBusy ==
    LET a == placeBuilding(ScnEnclave, "p1", "FARM", 1, 1, FALSE).e
        b == WithWave(a, "p1", <<2, 2>>, 1, 3 * CoordScale)
        c == [b EXCEPT !.tiles[<<3, 3>>].defense = RInt(10)]
    IN  distributeExpansion(c, "p1", 2, 2, 50)

(* The front board with the same captured tile *)
ClockFront == [ScnFront EXCEPT !.tiles[<<1, 1>>].defense = RInt(10)]

ClockBoards == {ClockBusy, ClockFront, ScnNested, ScnQueued(1)}

(* the ticks already counted when the watch begins *)
ClockStarts == {8, 18, 38, 48, 98}

InitClock ==
    /\ \E e \in ClockBoards, t \in ClockStarts : InitEngine([e EXCEPT !.tickCount = t])
    /\ hist = H("init", "", "", 0, 0, TRUE, FALSE, 0, NoLog)

SpecClock == InitClock /\ [][Tick]_vars

---------------------------------------------------------------------------
(* Queries and commands against the mid-game boards                        *)

QueryPlayers == {"p1", "p2", "px"}

(* own land, contested land, the water tile, a place off the map *)
QueryTiles == {<<1, 1>>, <<2, 1>>, <<0, 0>>, <<WarW, 1>>}

CanBuild(pid, type, q) ==
    /\ hist.cmds < MaxCmds
    /\ LET r == canBuildCall(Eng, pid, type, q[1], q[2])
       IN  /\ SetEng(r.e)
           /\ hist' = H("canBuild", pid, type, q[1], q[2], r.ok, FALSE,
                        hist.cmds + 1, NoLog)

CanSpawnUnit(pid, type, q) ==
    /\ hist.cmds < MaxCmds
    /\ LET r == canSpawnUnitCall(Eng, pid, type, q[1], q[2])
       IN  /\ SetEng(r.e)
           /\ hist' = H("canSpawnUnit", pid, type, q[1], q[2], r.ok, FALSE,
                        hist.cmds + 1, NoLog)

NextQuery ==
    \/ \E pid \in QueryPlayers, type \in CmdBuildings, q \in QueryTiles :
          CanBuild(pid, type, q)
    \/ \E pid \in QueryPlayers, type \in CmdUnits, q \in QueryTiles :
          CanSpawnUnit(pid, type, q)
    \/ \E pid \in WarPlayers, type \in CmdBuildings, q \in QueryTiles :
          PlaceBuilding(pid, type, q)
    \/ \E pid \in WarPlayers, type \in CmdUnits, q \in QueryTiles :
          SpawnUnit(pid, type, q)

SpecQuery == InitWar /\ [][NextQuery]_vars

---------------------------------------------------------------------------
(* The AIs deciding, next to a human and next to each other                *)

AIBoards ==
    {Held(ThreeRoster, owners, TRUE) :
        owners \in {Level({<<0, 3>>}), Level({<<0, 1>>, <<0, 2>>, <<0, 3>>, <<3, 2>>}),
                    Split("p2", 2, "p3"), Split("p1", 2, "p3"), Split("p1", 2, "p2")}}

InitAI ==
    /\ \E e \in AIBoards : InitEngine(e)
    /\ hist = H("init", "", "", 0, 0, TRUE, FALSE, 0, NoLog)

UpdateAI ==
    /\ hist.cmds < MaxSteps
    /\ \E r \in updateAI(Eng) :
          SetEng(r) /\ Stepped("updateAI", "", "", <<0, 0>>, NoLog)

NextAI ==
    \/ UpdateAI
    \/ UpdateEconomy
    \/ WaveArrives("p1", <<1, 3>>, 3000)
    \/ UpdateAttacks

SpecAI == InitAI /\ [][NextAI]_vars

---------------------------------------------------------------------------
(* Claims of land on the front board                                       *)

(* The front board after the building on the neutral tile (2,2) of a       *)
(* captured strip was razed by a unit: handleCombat cleared the owner and  *)
(* left the defense of the capture.                                        *)
ScnRazed == [ScnFront EXCEPT !.tiles[<<2, 2>>].defense = RInt(10)]

ClaimCentres == {<<2, 2>>, <<0, 0>>, <<WarW, 1>>}

ClaimRadii == {0, 1, 2}

InitClaim ==
    /\ \E e \in {ScnFront, ScnRazed} : InitEngine(e)
    /\ hist = H("init", "", "", 0, 0, TRUE, FALSE, 0, NoLog)

(* hist.log keeps the radius and the count returned *)
ClaimRadius(pid, q, radius) ==
    /\ hist.cmds < MaxCmds
    /\ LET c == claimRadius(Eng, pid, q[1], q[2], radius)
       IN  /\ SetEng(c.e)
           /\ hist' = H("claimRadius", pid, "", q[1], q[2], TRUE, FALSE,
                        hist.cmds + 1, <<radius, c.count>>)

NextClaim ==
    \E pid \in QueryPlayers, q \in ClaimCentres, radius \in ClaimRadii :
        ClaimRadius(pid, q, radius)

SpecClaim == InitClaim /\ [][NextClaim]_vars

---------------------------------------------------------------------------
(* Expansion orders on the mid-game boards                                 *)

ExpandPercents == {0, 50, 150}

NextExpand ==
    \/ \E pid \in QueryPlayers, q \in QueryTiles, percentage \in ExpandPercents :
          DistributeExpansion(pid, q, percentage)
    \/ UpdateEconomy

SpecExpand == InitWar /\ [][NextExpand]_vars

---------------------------------------------------------------------------
(* Capitals under attack                                                   *)

(* the front board with a second capital of p2 next to its KINGDOM *)
CrownTwo ==
    WithBuilding(ScnFront, <<WarW - 1, 1>>, "CASTLE", "p2", BUILDING_STATS["CASTLE"].maxHp)

(* the front board where the capital of p2 is a CASTLE *)
CrownCastle == WithBuilding(ScnFront, <<WarW - 1, 2>>, "CASTLE", "p2", 15)

InitCrown ==
    /\ \E e \in {ScnFront, CrownTwo, CrownCastle} : InitEngine(e)
    /\ hist = H("init", "", "", 0, 0, TRUE, FALSE, 0, NoLog)

NextCrown ==
    \/ \E q \in {<<WarW - 1, 2>>, <<WarW - 1, 1>>}, pw \in WarPowers : WaveArrives("p1", q, pw)
    \/ UpdateUnits
    \/ UpdateAttacks
    \/ ProcessWipeOutQueue

SpecCrown == InitCrown /\ [][NextCrown]_vars

---------------------------------------------------------------------------
(* Reserves ordered out and dispatched on the front board                  *)

DispatchPercents == {1, 50}

DispatchAims == {<<2, 1>>, <<WarW - 2, 1>>, <<0, 1>>}

ProcessMilitaryDispatch ==
    /\ hist.cmds < MaxSteps
    /\ \E sp \in WaveSpeeds :
          /\ SetEng(processMilitaryDispatch(Eng, <<sp>>))
          /\ Stepped("processMilitaryDispatch", "", "", <<0, 0>>, NoLog)

NextDispatch ==
    \/ \E pid \in WarPlayers, q \in DispatchAims, percentage \in DispatchPercents :
          DistributeExpansion(pid, q, percentage)
    \/ ProcessMilitaryDispatch

SpecDispatch == InitWar /\ [][NextDispatch]_vars

---------------------------------------------------------------------------
(* A new match begun on an engine that has played                          *)

(* init(roster, mapData) called on the running engine; nothing is done to  *)
(* the engine after it here.  The entries wipeOutQueue then still holds    *)
(* are those of the tiles of the map before.                               *)
Reinit ==
    /\ hist.cmds < MaxSteps
    /\ \E r \in init(Eng, MainRoster, WarMap) : SetEng(r)
    /\ hist' = H("init", "", "", 0, 0, TRUE, FALSE, MaxSteps, NoLog)

NextReinit ==
    \/ \E q \in WarTargets, pw \in WarPowers : WaveArrives("p1", q, pw)
    \/ UpdateUnits
    \/ UpdateAttacks
    \/ UpdateEconomy
    \/ Tick
    \/ Reinit

SpecReinit == InitWar /\ [][NextReinit]_vars

(* Waves on the shore: the AI p2 sends waves at LAND that is neutral or    *)
(* another AI's, as aiExpand picks its targets; the human p1 sends waves   *)
(* at any LAND that is not its own; updateAttacks lands them.              *)

RaidTargets == {<<1, 0>>, <<2, 0>>, <<2, 1>>, <<1, 1>>}

RaidBoards == {ScnFront, ScnNested, ScnEnclave}

InitRaid ==
    /\ \E e \in RaidBoards : InitEngine(e)
    /\ hist = H("init", "", "", 0, 0, TRUE, FALSE, 0, NoLog)

AIWaveArrives(pid, q, power) ==
    /\ tiles[q].type = "LAND"
    /\ \A i \in 1..Len(players) : players[i].id = tiles[q].ownerId => players[i].isAI
    /\ WaveArrives(pid, q, power)

HumanWaveArrives(pid, q, power) ==
    /\ tiles[q].type = "LAND"
    /\ WaveArrives(pid, q, power)

NextRaid ==
    \/ \E q \in RaidTargets, pw \in WarPowers : AIWaveArrives("p2", q, pw)
    \/ \E q \in RaidTargets, pw \in WarPowers : HumanWaveArrives("p1", q, pw)
    \/ UpdateAttacks

SpecRaid == InitRaid /\ [][NextRaid]_vars

(* Three players on the war map: p3 holds one tile, p1 the land tiles next *)
(* to it, p2 all the other land; waves land and the encirclement pass runs. *)

SiegeCentres == (1..(WarW - 2)) \X (0..(WarH - 2))

PlusOwner(c) ==
    [q \in WarBoard |->
        IF WarTerrain(q[1], q[2])[1] = 0 THEN NoOwner
        ELSE IF q = c THEN "p3"
        ELSE IF (q[1] - c[1]) * (q[1] - c[1]) + (q[2] - c[2]) * (q[2] - c[2]) = 1 THEN "p1"
        ELSE "p2"]

SiegeBoards == {Held(ThreeRoster, PlusOwner(c), TRUE) : c \in SiegeCentres}

InitSiege ==
    /\ \E e \in SiegeBoards : InitEngine(e)
    /\ hist = H("init", "", "", 0, 0, TRUE, FALSE, 0, NoLog)

SiegePlayers == {"p1", "p2", "p3"}

NextSiege ==
    \/ \E pid \in SiegePlayers, q \in WarTargets : WaveArrives(pid, q, 50)
    \/ UpdateAttacks
    \/ CheckEncirclement

SpecSiege == InitSiege /\ [][NextSiege]_vars

(* A wipe-out and a third player: p1 holds the west, p2 the middle with    *)
(* its KINGDOM of 15 hp, p3 the eastern column.  A wave of p1 is about to  *)
(* land on the KINGDOM; on some boards a wave of p3, created before it and *)
(* so resolved after it, is about to land on a tile of p2.                 *)

PlunderVictim == "p2"

PlunderOwner ==
    [q \in WarBoard |->
        IF WarTerrain(q[1], q[2])[1] = 0 THEN NoOwner
        ELSE IF q[1] <= 1 THEN "p1"
        ELSE IF q[1] = WarW - 1 THEN "p3"
        ELSE PlunderVictim]

PlunderCrown == <<2, 2>>

PlunderBoard ==
    WithBuilding(Held(ThreeRoster, PlunderOwner, TRUE), PlunderCrown, "KINGDOM",
                 PlunderVictim, 15)

PlunderBoards ==
    {WithWave(PlunderBoard, "p1", PlunderCrown, 3000, 0)}
    \cup {WithWave(WithWave(PlunderBoard, "p3", q, pw, 0), "p1", PlunderCrown, 3000, 0) :
            q \in {<<WarW - 2, 1>>, <<WarW - 2, 3>>}, pw \in {8, 50}}

InitPlunder ==
    /\ \E e \in PlunderBoards : InitEngine(e)
    /\ hist = H("init", "", "", 0, 0, TRUE, FALSE, 0, NoLog)

NextPlunder ==
    \/ \E pid \in {"p1", "p3"}, q \in WarTargets, pw \in WarPowers : WaveArrives(pid, q, pw)
    \/ UpdateAttacks
    \/ ProcessWipeOutQueue

SpecPlunder == InitPlunder /\ [][NextPlunder]_vars

(* Orders, unit combat and dispatch: on the sortie board a SWORDSMAN of p1 *)
(* stands on the neutral strip next to a FARM of p2 worn down to 10 hp.    *)

SortieBoard ==
    WithUnit(WithBuilding(Settled(FrontOwner), <<WarW - 2, 2>>, "FARM", "p2", 10),
             1, "SWORDSMAN", <<2, 2>>)

InitSortie ==
    /\ \E e \in {ScnFront, ScnEnclave, SortieBoard} : InitEngine(e)
    /\ hist = H("init", "", "", 0, 0, TRUE, FALSE, 0, NoLog)

NextSortie ==
    \/ \E pid \in WarPlayers, q \in DispatchAims, percentage \in DispatchPercents :
          DistributeExpansion(pid, q, percentage)
    \/ ProcessMilitaryDispatch
    \/ UpdateUnits

SpecSortie == InitSortie /\ [][NextSortie]_vars

(* Waves on their way: orders are given and dispatched a bounded number of *)
(* times, and updateAttacks is called tick after tick for as long as the   *)
(* driver runs.                                                            *)

Travel ==
    \E r \in {updateAttacks(Eng)} :
        /\ SetEng(r.e)
        /\ hist' = H("updateAttacks", "", "", 0, 0, TRUE, FALSE, hist.cmds, r.logs)

NextTravel ==
    \/ \E pid \in WarPlayers, q \in DispatchAims : DistributeExpansion(pid, q, 1)
    \/ ProcessMilitaryDispatch
    \/ Travel

InitTravel ==
    /\ \E e \in {Settled(FrontOwner), ScnNested, ScnEnclave} : InitEngine(e)
    /\ hist = H("init", "", "", 0, 0, TRUE, FALSE, 0, NoLog)

SpecTravel == InitTravel /\ [][NextTravel]_vars /\ WF_vars(Travel)

(* Play after the end: on the first two boards an economy pass has just    *)
(* made p1 the winner, and on the second a wave of p2 is about to land;    *)
(* waves keep landing and economy passes keep running.                     *)

ReignBoards ==
    {updateEconomy(ScnEnd), WithWave(updateEconomy(ScnEnd), "p2", <<0, 3>>, 3000, 0),
     ScnEnd, ScnFront}

InitReign ==
    /\ \E e \in ReignBoards : InitEngine(e)
    /\ hist = H("init", "", "", 0, 0, TRUE, FALSE, 0, NoLog)

NextReign ==
    \/ \E pid \in WarPlayers, q \in WarTargets, pw \in WarPowers : WaveArrives(pid, q, pw)
    \/ UpdateAttacks
    \/ UpdateEconomy

SpecReign == InitReign /\ [][NextReign]_vars

(* The fallen and the deprecated: unit passes and move orders on boards    *)
(* where a SOLDIER and a dead SWORDSMAN of p1 stand next to a FARM of p2,  *)
(* where a SWORDSMAN of p1 faces a HORSE of p2 that one blow will kill,    *)
(* and where the SWORDSMAN is the one a blow will kill.                    *)

(* the board with one more unit of player i on q, at the given hp *)
WithUnitAt(e, i, type, q, hp) ==
    [WithUnit(e, i, type, q) EXCEPT !.players[i].units[Len(e.players[i].units) + 1].hp = hp]

FallenIdle ==
    WithUnitAt(WithUnit(WithBuilding(Settled(FrontOwner), <<WarW - 2, 2>>, "FARM", "p2", 200),
                        1, "SOLDIER", <<2, 2>>),
               1, "SWORDSMAN", <<2, 2>>, 0)

FallenHorse ==
    WithUnitAt(WithUnit(Settled(FrontOwner), 1, "SWORDSMAN", <<2, 2>>),
               2, "HORSE", <<2, 3>>, 15)

FallenSword ==
    WithUnit(WithUnitAt(Settled(FrontOwner), 1, "SWORDSMAN", <<2, 2>>, 20),
             2, "HORSE", <<2, 3>>)

FallenIds == {1, 2}

FallenAims == {<<2, 2>>, <<2, 4>>}

InitFallen ==
    /\ \E e \in {FallenIdle, FallenHorse, FallenSword} : InitEngine(e)
    /\ hist = H("init", "", "", 0, 0, TRUE, FALSE, 0, NoLog)

NextFallen ==
    \/ UpdateUnits
    \/ \E pid \in WarPlayers, unitId \in FallenIds, q \in FallenAims : MoveUnit(pid, unitId, q)

SpecFallen == InitFallen /\ [][NextFallen]_vars

(* Building sites: on the mason boards p1 has placed a FARM on (1,1) and   *)
(* the building pass has run over it 0, 98 or 99 times; building, ticks,   *)
(* building passes and economy passes follow.                              *)

MasonProgress == {0, 98, 99}

MasonBoard(progress) ==
    [placeBuilding(Settled(FrontOwner), "p1", "FARM", 1, 1, FALSE).e
       EXCEPT !.tiles[<<1, 1>>].building.constructionProgress = progress]

InitMason ==
    /\ \E e \in {MasonBoard(progress) : progress \in MasonProgress} \cup {ScnFront} :
          InitEngine(e)
    /\ hist = H("init", "", "", 0, 0, TRUE, FALSE, 0, NoLog)

UpdateBuildings ==
    /\ hist.cmds < MaxSteps
    /\ SetEng(updateBuildings(Eng))
    /\ Stepped("updateBuildings", "", "", <<0, 0>>, NoLog)

NextMason ==
    \/ \E q \in WarSites : Build("p1", "FARM", q)
    \/ UpdateBuildings
    \/ UpdateEconomy
    \/ Tick

SpecMason == InitMason /\ [][NextMason]_vars

(* Holding the land: orders of half and of one and a half times the        *)
(* population, then the passes and commands that set a tile's defense.     *)

HoldPercents == {50, 150}

InitHold ==
    /\ \E e \in {ScnFront, ScnEnclave} : InitEngine(e)
    /\ hist = H("init", "", "", 0, 0, TRUE, FALSE, 0, NoLog)

UpdateTerritory ==
    /\ hist.cmds < MaxSteps
    /\ SetEng(updateTerritory(Eng))
    /\ Stepped("updateTerritory", "", "", <<0, 0>>, NoLog)

NextHold ==
    \/ \E pid \in WarPlayers, q \in DispatchAims, percentage \in HoldPercents :
          DistributeExpansion(pid, q, percentage)
    \/ \E pid \in WarPlayers, q \in WarTargets, pw \in WarPowers : WaveArrives(pid, q, pw)
    \/ \E q \in WarSites : Build("p1", "FARM", q)
    \/ UpdateAttacks
    \/ UpdateTerritory
    \/ CheckEncirclement
    \/ ProcessWipeOutQueue

SpecHold == InitHold /\ [][NextHold]_vars

----------------------------------------------------------------------------
(* Properties                                                              *)

(* the tiles a player's id is written on *)
TilesOf(id) == {q \in DOMAIN tiles : tiles[q].ownerId = id}

(* C1: at every tick boundary each player's ownedTiles holds every tile    *)
(* whose ownerId is the player's id exactly once, and no other tile.       *)
C1_OwnedTilesExact ==
    \A i \in 1..Len(players) : \A q \in DOMAIN tiles :
        SeqCount(players[i].ownedTiles, q)
            = (IF tiles[q].ownerId = players[i].id THEN 1 ELSE 0)

(* C9: when canBuild is false, placeBuilding returns normally and changes  *)
(* no tile, building, resource balance or ownedTiles list.                 *)
C9_RefusedBuildChangesNothing ==
    [][(hist'.op = "placeBuilding"
        /\ ~canBuild(Eng, hist'.pid, hist'.type, hist'.x, hist'.y))
       => /\ ~hist'.threw
          /\ tiles' = tiles
          /\ \A i \in 1..Len(players) :
                /\ players'[i].resources = players[i].resources
                /\ players'[i].ownedTiles = players[i].ownedTiles]_vars

(* C10: when canSpawnUnit is false, spawnUnit adds no unit and changes no  *)
(* resource balance or population.                                         *)
C10_RefusedSpawnChangesNothing ==
    [][(hist'.op = "spawnUnit"
        /\ ~canSpawnUnit(Eng, hist'.pid, hist'.type, hist'.x, hist'.y))
       => \A i \in 1..Len(players) :
            /\ players'[i].units = players[i].units
            /\ players'[i].resources = players[i].resources
            /\ players'[i].population = players[i].population]_vars

(* the applyAttack runs of the step just taken, oldest first *)
WaveLogs ==
    IF hist.op = "updateAttacks" THEN hist.log
    ELSE IF hist.op = "update" THEN hist.log.waves
    ELSE <<>>

(* every propagation step of those runs *)
WaveSteps == UNION {{WaveLogs[k].steps[j] : j \in 1..Len(WaveLogs[k].steps)} :
                      k \in 1..Len(WaveLogs)}

RECURSIVE RSum(_)
RSum(ps) == IF ps = <<>> THEN RInt(0) ELSE RAdd(Head(ps).power, RSum(Tail(ps)))

(* what is left of a step's power after paying ten per point of defense *)
Remainder(st) == RSub(st.power, RMulI(st.before.defense, 10))

(* C2, as stated: a capturing step with power p on defense d spends 10*d,  *)
(* and when p - 10*d exceeds the overflow threshold of 10 the overflow     *)
(* entries it enqueues carry p - 10*d in total.                            *)
C2_OverflowConserved ==
    \A st \in WaveSteps :
        (st.kind = "capture" /\ RLt(RInt(10), Remainder(st)))
            => RSum(st.pushed) = Remainder(st)

(* C2, amended: the same, for a captured tile that has at least one        *)
(* in-bounds neighbour the attacker does not own; with none, the           *)
(* remainder is dropped.                                                   *)
C2_OverflowConservedWhenEligible ==
    \A st \in WaveSteps :
        (st.kind = "capture" /\ RLt(RInt(10), Remainder(st)))
            => IF st.eligible > 0 THEN RSum(st.pushed) = Remainder(st)
               ELSE st.pushed = <<>>

C2_Witness ==
    \E st \in WaveSteps :
        /\ st.kind = "capture" /\ RLt(RInt(10), Remainder(st))
        /\ st.eligible > 1 /\ Len(st.pushed) = st.eligible

(* C3: one call of applyAttack processes at most 20 tiles, however large   *)
(* the wave and however many overflow entries are waiting.                 *)
C3_ChainBounded ==
    \A k \in 1..Len(WaveLogs) :
        /\ WaveLogs[k].tilesProcessed <= 20
        /\ Len(WaveLogs[k].steps) = WaveLogs[k].tilesProcessed

C3_Witness ==
    \E k \in 1..Len(WaveLogs) :
        WaveLogs[k].tilesProcessed = 20 /\ WaveLogs[k].left > 0

(* C4: a step landing on a tile its wave's owner already holds leaves the  *)
(* owner alone, damages nothing on the tile, produces no overflow and only *)
(* heals: defense rises toward 1 + floor(population / 2000), never past it *)
C4_OwnTileOnlyHealed ==
    \A st \in WaveSteps :
        st.before.ownerId = st.ownerId
            => /\ st.after.ownerId = st.before.ownerId
               /\ st.after.building = st.before.building
               /\ st.pushed = <<>>
               /\ RLeq(st.before.defense, st.after.defense)
               /\ \/ st.after.defense = st.before.defense
                  \/ RLeq(st.after.defense, PopDefense(st.population))

(* C5: a step of A's wave on a building-free tile of another owner B or of *)
(* nobody: if the damage max(0.1, power / 10) reaches the defense, the     *)
(* tile becomes A's, leaves B.ownedTiles, is in A.ownedTiles exactly once  *)
(* and gets defense 1 + floor(A.population / 2000); otherwise the defense  *)
(* drops by the damage and the owner and both caches stay as they were.    *)
C5_CaptureOrDamage ==
    \A st \in WaveSteps :
        (~HasBuilding(st.before) /\ st.before.ownerId # st.ownerId)
            => IF RLeq(st.before.defense, RMax(<<1, 10>>, RDivI(st.power, 10)))
               THEN /\ st.after.ownerId = st.ownerId
                    /\ st.cacheB[2] = 0
                    /\ st.cacheA[2] = 1
                    /\ st.after.defense = PopDefense(st.population)
               ELSE /\ st.after.defense
                         = RSub(st.before.defense, RMax(<<1, 10>>, RDivI(st.power, 10)))
                    /\ st.after.ownerId = st.before.ownerId
                    /\ st.cacheA[2] = st.cacheA[1]
                    /\ st.cacheB[2] = st.cacheB[1]

(* the four places next to q, on the map or not *)
Nbrs(q) == {<<q[1], q[2] - 1>>, <<q[1], q[2] + 1>>, <<q[1] - 1, q[2]>>, <<q[1] + 1, q[2]>>}

OwnedLand(id) == {q \in DOMAIN tiles : tiles[q].type = "LAND" /\ tiles[q].ownerId = id}

(* the maximal 4-connected part of id's land around R *)
RECURSIVE Grow(_, _)
Grow(R, id) ==
    IF (UNION {Nbrs(q) : q \in R}) \cap OwnedLand(id) \subseteq R THEN R
    ELSE Grow(R \cup ((UNION {Nbrs(q) : q \in R}) \cap OwnedLand(id)), id)

Regions(id) == {Grow({q}, id) : q \in OwnedLand(id)}

Outside(R) == (UNION {Nbrs(q) : q \in R}) \ R

(* every outside neighbour of R is a land tile of a: no water, no map      *)
(* edge, no neutral land, no third player                                  *)
EnclosedBy(R, a) ==
    \A n \in Outside(R) : n \in DOMAIN tiles /\ tiles[n].type = "LAND"
                           /\ tiles[n].ownerId = a

(* the region R of player bi has gone over to player ai in this step *)
Fallen(R, ai, bi) ==
    \A q \in R :
        /\ tiles'[q].ownerId = players[ai].id
        /\ tiles'[q].defense = RInt(10)
        /\ HasBuilding(tiles[q])
              => /\ tiles'[q].building.ownerId = players[ai].id
                 /\ tiles'[q].building.hp = RDivI(RInt(tiles[q].building.maxHp), 2)
        /\ ~SeqContains(players'[bi].ownedTiles, q)
        /\ SeqContains(players'[ai].ownedTiles, q)

(* C6, as stated: after one checkEncirclement pass every maximal land      *)
(* region of a player B enclosed by land of one other player A alone is    *)
(* A's: owner A, defense 10, buildings A's at half their maxHp, tiles      *)
(* moved from B.ownedTiles to A.ownedTiles.                                *)
C6_EnclosedRegionFalls ==
    [][hist'.op = "checkEncirclement"
       => \A ai, bi \in 1..Len(players) :
            players[ai].id # players[bi].id
              => \A R \in Regions(players[bi].id) :
                    EnclosedBy(R, players[ai].id) => Fallen(R, ai, bi)]_vars

(* C6, amended: the same, for a region with at least one neighbouring tile *)
(* of A that is still A's after the pass.  Land of A that is itself        *)
(* enclosed by B alone is scanned first and falls to B, and a region that  *)
(* loses all its A neighbours this way stays with B.                       *)
C6_EnclosedRegionFallsToStandingOwner ==
    [][hist'.op = "checkEncirclement"
       => \A ai, bi \in 1..Len(players) :
            players[ai].id # players[bi].id
              => \A R \in Regions(players[bi].id) :
                    (/\ EnclosedBy(R, players[ai].id)
                     /\ \E n \in Outside(R) : tiles'[n].ownerId = players[ai].id)
                       => Fallen(R, ai, bi)]_vars

C6_Witness ==
    /\ hist.op = "checkEncirclement"
    /\ \E k \in 1..Len(hist.log) :
          LET R == {hist.log[k].component[j] : j \in 1..Len(hist.log[k].component)}
          IN  /\ hist.log[k].from = "p2" /\ hist.log[k].to = "p1"
              /\ \A q \in R : tiles[q].ownerId = "p1" /\ tiles[q].defense = RInt(10)
              /\ \E q \in R : HasBuilding(tiles[q])
              /\ \A n \in Outside(R) : n \in DOMAIN tiles /\ tiles[n].ownerId = "p1"

(* C7: when a unit brings an enemy KINGDOM to 0 hp, the wipe-out of its    *)
(* owner to the unit's owner is queued in that tick, and once the queue    *)
(* has drained every tile the defeated player held at the kill, the        *)
(* KINGDOM's tile included, is the attacker's and is in no other player's  *)
(* ownedTiles.                                                             *)
C7_KingSlainTerritoryHandedOver ==
    hist.op = "update"
      => \A k \in 1..Len(hist.log.kills) :
            hist.log.kills[k].type = "KINGDOM"
              => /\ hist.log.kills[k].queued
                 /\ wipeOutQueue = <<>>
                      => \A q \in hist.log.kills[k].victimTiles :
                            /\ tiles[q].ownerId = hist.log.kills[k].killer
                            /\ \A i \in 1..Len(players) :
                                  players[i].id # hist.log.kills[k].killer
                                    => ~SeqContains(players[i].ownedTiles, q)

(* the share of the generated land that id holds is above 80% *)
HoldsMostLand(id) == 5 * Cardinality(OwnedLand(id)) > 4 * totalLandTiles

(* the loss rule of the economy pass applies: the match is active, a human *)
(* is in the roster and no human holds a tile                              *)
HumansOut ==
    /\ isGameActive
    /\ \E i \in 1..Len(players) : ~players[i].isAI
    /\ \A i \in 1..Len(players) : ~players[i].isAI => TilesOf(players[i].id) = {}

(* C8: an economy pass makes p the winner when p holds more than 80% of    *)
(* the generated LAND tiles, and the 80% rule never makes a winner of a    *)
(* player holding 80% of them or less.                                     *)
C8_WinnerHoldsMostLand ==
    [][hist'.op = "updateEconomy"
       => /\ \A i \in 1..Len(players) :
                HoldsMostLand(players[i].id) => winnerId' = players[i].id
          /\ (winnerId' # winnerId /\ ~HumansOut) => HoldsMostLand(winnerId')]_vars

EngineVars ==
    <<config, tiles, players, attacks, wipeOutQueue, tickCount, winnerId,
      totalLandTiles, isGameActive>>

UnitsWithId(pi, id) ==
    {k \in 1..Len(players[pi].units) : players[pi].units[k].id = id}

(* C12: moveUnit changes nothing when the player is unknown, the unit is   *)
(* not one of the player's, or (x, y) is off the map; a valid request sets *)
(* the unit's target to (x, y), hasCommand to true and idleTicks to 0.     *)
C12_RefusedMoveChangesNothing ==
    [][hist'.op = "moveUnit"
       => \E id \in CmdUnitIds :
            LET pi == getPlayer(Eng, hist'.pid)
            IN  IF pi = 0 \/ ~isValid(Eng, hist'.x, hist'.y)
                THEN EngineVars' = EngineVars
                ELSE IF UnitsWithId(pi, id) = {} THEN EngineVars' = EngineVars
                ELSE \E k \in UnitsWithId(pi, id) :
                        /\ players'[pi].units[k].hasTarget
                        /\ players'[pi].units[k].targetX = hist'.x * CoordScale
                        /\ players'[pi].units[k].targetY = hist'.y * CoordScale
                        /\ players'[pi].units[k].hasCommand
                        /\ players'[pi].units[k].idleTicks = 0]_vars

(* C13: on a generated map a tile has elevation 0 exactly when it is      *)
(* WATER, land elevation is in 1..15, and no step changes the type or the  *)
(* elevation of a tile.                                                    *)
C13_ElevationMatchesType ==
    /\ [](\A q \in DOMAIN tiles :
            /\ tiles[q].elevation = 0 <=> tiles[q].type = "WATER"
            /\ tiles[q].type = "LAND" => tiles[q].elevation \in 1..15)
    /\ [][/\ DOMAIN tiles' = DOMAIN tiles
          /\ \A q \in DOMAIN tiles : /\ tiles'[q].type = tiles[q].type
                                      /\ tiles'[q].elevation = tiles[q].elevation]_vars

C13_Witness ==
    /\ hist.op = "update"
    /\ \E q \in DOMAIN tiles : tiles[q].type = "LAND" /\ tiles[q].elevation = 1
    /\ \E q \in DOMAIN tiles : tiles[q].type = "LAND" /\ tiles[q].elevation = 15
    /\ \E q \in DOMAIN tiles : tiles[q].type = "WATER"
    /\ \E q \in DOMAIN tiles : HasBuilding(tiles[q])

(* C14, as stated: whatever the length of the queue, about 20 drains (here *)
(* twice that, to be generous) empty it.                                   *)
C14_DrainedInAboutTwentyTicks ==
    hist.cmds >= 2 * 20 => wipeOutQueue = <<>>

(* C14, amended: each drain takes max(50, ceil(length / 20)) entries off   *)
(* the front, or all of them when fewer are left, so a queue of at most    *)
(* 1000 entries is empty after 20 drains.                                  *)
C14_DrainedInTwentyTicksUpToThousand ==
    /\ [](hist.x <= 50 * 20 /\ hist.cmds >= 20 => wipeOutQueue = <<>>)
    /\ [][hist'.op = "processWipeOutQueue"
          => wipeOutQueue' =
               SubSeq(wipeOutQueue,
                      Min2(Len(wipeOutQueue),
                           Max2(50, CeilDiv(Len(wipeOutQueue), 20))) + 1,
                      Len(wipeOutQueue))]_vars

C14_Witness ==
    /\ hist.op = "processWipeOutQueue" /\ hist.x = 50 * 20
    /\ hist.cmds = 20 /\ hist.y = 50 /\ wipeOutQueue = <<>>

AIs == {i \in 1..Len(players) : players[i].isAI}

(* the AIs no other AI holds more tiles than *)
TopAIs == {players[i].id : i \in {i \in AIs : \A j \in AIs :
               Cardinality(TilesOf(players[j].id)) <= Cardinality(TilesOf(players[i].id))}}

(* what the 80% rule allows an economy pass to do to winnerId *)
WinnerByShare ==
    \/ winnerId' = winnerId
    \/ 5 * Cardinality(TilesOf(winnerId')) > 4 * totalLandTiles

(* C15, as stated: in an economy pass of an active match with a human in   *)
(* the roster and no human holding a tile, winnerId becomes the AI holding *)
(* the most tiles; otherwise the loss rule leaves winnerId alone.          *)
C15_LossNamesTopAI ==
    [][hist'.op = "updateEconomy"
       => IF HumansOut THEN winnerId' \in TopAIs ELSE WinnerByShare]_vars

(* C15, amended: the same, and with no AI in the roster winnerId becomes   *)
(* 'AI_WINNER'.                                                            *)
C15_LossNamesTopAIOrNobody ==
    [][hist'.op = "updateEconomy"
       => IF HumansOut
          THEN IF AIs = {} THEN winnerId' = "AI_WINNER" ELSE winnerId' \in TopAIs
          ELSE WinnerByShare]_vars

(* p3, second of the AIs in the roster, has been named the winner over p2  *)
(* while the human holds no tile                                           *)
C15_Witness ==
    /\ hist.op = "updateEconomy" /\ winnerId = "p3" /\ isGameActive
    /\ TilesOf("p1") = {} /\ TilesOf("p2") # {}
    /\ Cardinality(TilesOf("p3")) > Cardinality(TilesOf("p2"))
    /\ 5 * Cardinality(TilesOf("p3")) <= 4 * totalLandTiles

(* the order just given: who gave it, the tile clicked, the percentage and *)
(* floor(population * percentage / 100)                                    *)
Order ==
    [i |-> CHOOSE i \in 0..Len(players) :
              IF \E k \in 1..Len(players) : players[k].id = hist'.pid
              THEN i > 0 /\ players[i].id = hist'.pid ELSE i = 0,
     q |-> <<hist'.x, hist'.y>>,
     percentage |-> hist'.log[1]]

OrderAmount(o) == (players[o.i].population * o.percentage) \div (100 * PopScale)

OrderTaken(o) ==
    /\ o.q \in DOMAIN tiles /\ o.i > 0
    /\ tiles[o.q].ownerId # players[o.i].id
    /\ players[o.i].population > 2 * PopScale
    /\ OrderAmount(o) > 0

OrderMoves(o) ==
    /\ players' = [players EXCEPT
                     ![o.i].population = @ - OrderAmount(o) * PopScale,
                     ![o.i].militaryPopulation = @ + OrderAmount(o),
                     ![o.i].attackTarget = tiles[o.q].ownerId]
    /\ <<config, tiles, attacks, wipeOutQueue, tickCount, winnerId, totalLandTiles,
         isGameActive>>' = <<config, tiles, attacks, wipeOutQueue, tickCount, winnerId,
                             totalLandTiles, isGameActive>>

OrderMovesOrNothing ==
    [][hist'.op = "distributeExpansion"
       => IF OrderTaken(Order) THEN OrderMoves(Order)
          ELSE EngineVars' = EngineVars]_vars

(* every cell of the 5x5 block around q is on the map, LAND, nobody's, *)
(* free of buildings and no higher than 12                            *)
BlockClear(q) ==
    \A dx \in -2..2, dy \in -2..2 :
        /\ <<q[1] + dx, q[2] + dy>> \in DOMAIN tiles
        /\ tiles[<<q[1] + dx, q[2] + dy>>].type = "LAND"
        /\ tiles[<<q[1] + dx, q[2] + dy>>].ownerId = NoOwner
        /\ tiles[<<q[1] + dx, q[2] + dy>>].building = NoBuilding
        /\ tiles[<<q[1] + dx, q[2] + dy>>].elevation <= 12

(* C17: spawnHumanBase returns true exactly when the 5x5 block around the  *)
(* place is clear, and a refused call changes no tile, building or player. *)
C17_SpawnOnlyOnClearBlock ==
    [][hist'.op = "spawnHumanBase"
       => /\ hist'.ok <=> BlockClear(<<hist'.x, hist'.y>>)
          /\ ~hist'.ok => EngineVars' = EngineVars]_vars

(* a base was refused on a block that is on the map and all land, after a  *)
(* base had been founded next to it                                        *)
C17_Witness ==
    /\ hist.op = "spawnHumanBase" /\ ~hist.ok /\ hist.cmds = 2
    /\ \A dx \in -2..2, dy \in -2..2 :
          /\ <<hist.x + dx, hist.y + dy>> \in DOMAIN tiles
          /\ tiles[<<hist.x + dx, hist.y + dy>>].type = "LAND"
    /\ \E q \in DOMAIN tiles : tiles[q].building # NoBuilding
                                /\ tiles[q].building.type = "KINGDOM"

(* the unowned LAND tiles of the map within radius of the centre *)
FreeWithin(cx, cy, radius) ==
    {q \in DOMAIN tiles :
        /\ (q[1] - cx) * (q[1] - cx) + (q[2] - cy) * (q[2] - cy) <= radius * radius
        /\ tiles[q].type = "LAND"
        /\ tiles[q].ownerId = NoOwner}

(* 1 + floor(population / 2000) of the player pid, 0 when there is none *)
ClaimDefense(pid) ==
    LET S == {i \in 1..Len(players) : players[i].id = pid}
    IN  IF S = {} THEN 0
        ELSE 1 + (players[CHOOSE i \in S : TRUE].population \div (2000 * PopScale))

(* C18: claimRadius(p, cx, cy, r) gives p exactly the unowned in-bounds    *)
(* LAND tiles within distance r of (cx, cy), each with defense             *)
(* 1 + floor(p.population / 2000), leaves the other tiles as they were and *)
(* returns the number of tiles claimed.                                    *)
C18_ClaimsFreeLandWithinRadius ==
    [][hist'.op = "claimRadius"
       => /\ \A q \in DOMAIN tiles :
                IF q \in FreeWithin(hist'.x, hist'.y, hist'.log[1])
                THEN /\ tiles'[q].ownerId = hist'.pid
                     /\ ClaimDefense(hist'.pid) > 0
                           => tiles'[q] = [tiles[q] EXCEPT
                                             !.ownerId = hist'.pid,
                                             !.defense = RInt(ClaimDefense(hist'.pid))]
                ELSE tiles'[q] = tiles[q]
          /\ hist'.log[2] = Cardinality(FreeWithin(hist'.x, hist'.y, hist'.log[1]))]_vars

(* p2 has claimed the razed tile, whose defense fell from 10 to 1, next to *)
(* land of its own and of p1 that stayed as it was                         *)
C18_Witness ==
    /\ hist.op = "claimRadius" /\ hist.pid = "p2" /\ hist.log[1] = 2 /\ hist.log[2] > 1
    /\ hist.x = 2 /\ hist.y = 2
    /\ tiles[<<2, 2>>].ownerId = "p2" /\ tiles[<<2, 2>>].defense = RInt(1)
    /\ tiles[<<1, 2>>].ownerId = "p1" /\ hist.cmds = 1

Humans == {players[k].id : k \in {k \in 1..Len(players) : ~players[k].isAI}}

(* the owners of the LAND tiles next to the land of id that are not its own *)
OwnersNextTo(id) ==
    {tiles[n].ownerId : n \in {n \in DOMAIN tiles :
        /\ tiles[n].type = "LAND" /\ tiles[n].ownerId # id
        /\ \E q \in TilesOf(id) :
              (q[1] - n[1]) * (q[1] - n[1]) + (q[2] - n[2]) * (q[2] - n[2]) = 1}}

(* C19: an AI pass gives orders only against LAND next to the AI's own     *)
(* that is neutral or another AI's: the attackTarget of an AI that has     *)
(* committed population in the pass is nobody or another AI bordering it,  *)
(* and the attackTarget of an AI never becomes the id of a human.          *)
C19_AINeverTargetsHuman ==
    [][hist'.op = "updateAI"
       => \A i \in AIs :
            /\ players'[i].attackTarget \in Humans
                  => players'[i].attackTarget = players[i].attackTarget
            /\ players'[i].population # players[i].population
                  => /\ players'[i].attackTarget \notin Humans
                     /\ players'[i].attackTarget \in OwnersNextTo(players[i].id)
                     /\ players'[i].attackTarget = NoOwner
                           \/ \E j \in AIs \ {i} : players'[i].attackTarget = players[j].id]_vars

(* p2, whose land borders the human's and p3's, has sent population        *)
(* against p3                                                              *)
C19_Witness ==
    /\ hist.op = "updateAI"
    /\ players[2].attackTarget = "p3" /\ players[2].militaryPopulation > 0
    /\ \E q \in TilesOf("p2"), n \in TilesOf("p1") :
          (q[1] - n[1]) * (q[1] - n[1]) + (q[2] - n[2]) * (q[2] - n[2]) = 1

(* the economy pass has run in this step: every player was paid at least  *)
(* the one gold of the pass                                               *)
EconomyRan ==
    \A i \in 1..Len(players) : ~players[i].isAI
        => players'[i].resources["GOLD"] > players[i].resources["GOLD"]

(* neither the economy nor the AI pass has touched anybody *)
NobodyPlanned ==
    \A i \in 1..Len(players) :
        /\ players'[i].resources = players[i].resources
        /\ players'[i].population = players[i].population
        /\ players'[i].attackTarget = players[i].attackTarget

(* a region of one player that land of another alone encloses *)
SomeEnclosed ==
    \E ai, bi \in 1..Len(players) :
        /\ ai # bi
        /\ \E R \in Regions(players[bi].id) : EnclosedBy(R, players[ai].id)

(* the owned tiles above the defense their owner's population gives, on    *)
(* which nothing but the regeneration pass acts in this step               *)
Overdefended ==
    {q \in DOMAIN tiles :
        /\ tiles[q].ownerId # NoOwner /\ tiles'[q].ownerId = tiles[q].ownerId
        /\ RLt(RInt(ClaimDefense(tiles[q].ownerId)), tiles[q].defense)
        /\ \A k \in 1..Len(attacks) : <<attacks[k].targetX, attacks[k].targetY>> # q}

(* the passes of every tick have run: waves have moved, buildings going up *)
(* have gained a point of progress, the queue has been drained, the units  *)
(* have acted, reserves with a target have been dispatched                 *)
EveryTickRan ==
    /\ attacks # <<>> => attacks' # attacks
    /\ \A q \in DOMAIN tiles :
          (HasBuilding(tiles[q]) /\ tiles[q].building.isUnderConstruction
             /\ HasBuilding(tiles'[q]))
            => tiles'[q].building.constructionProgress
                 = tiles[q].building.constructionProgress + 1
    /\ wipeOutQueue # <<>> => Len(wipeOutQueue') < Len(wipeOutQueue)
    /\ \A i \in 1..Len(players) :
          players[i].units # <<>> => players'[i].units # players[i].units
    /\ \A i \in 1..Len(players) :
          (/\ ~players[i].isAI /\ players[i].militaryPopulation > 0
           /\ players[i].attackTarget \in OwnersNextTo(players[i].id))
            => players'[i].militaryPopulation < players[i].militaryPopulation

(* C20: in update the economy and AI passes run exactly when the new       *)
(* tickCount is a multiple of 10, the encirclement pass exactly on the     *)
(* multiples of 50, the territory regeneration exactly on the multiples of *)
(* 20, and the unit, dispatch, wave, construction and drain passes on      *)
(* every tick.                                                             *)
C20_PassesOnTheirTicks ==
    [][hist'.op = "update"
       => /\ tickCount' = tickCount + 1
          /\ IF tickCount' % 10 = 0 THEN EconomyRan ELSE NobodyPlanned
          /\ hist'.log.caps # <<>> => tickCount' % 50 = 0
          /\ (tickCount' % 50 = 0 /\ SomeEnclosed) => hist'.log.caps # <<>>
          /\ \A q \in Overdefended :
                IF tickCount' % 20 = 0
                THEN tiles'[q].defense = RInt(ClaimDefense(tiles[q].ownerId))
                ELSE tiles'[q].defense = tiles[q].defense
          /\ EveryTickRan]_vars

(* tick 100 on the busy board: p1 was paid, the enclave fell to it, its    *)
(* captured tile is back at the defense of its population, its farm has    *)
(* gained two points in two ticks and its wave has moved on                *)
C20_Witness ==
    /\ hist.op = "update" /\ tickCount = 100 /\ hist.cmds = 2
    /\ hist.log.caps # <<>> /\ tiles[<<2, 2>>].ownerId = "p1"
    /\ players[1].resources["GOLD"] > 100 - BUILDING_COSTS["FARM"]["GOLD"]
    /\ tiles[<<3, 3>>].defense = RInt(1)
    /\ HasBuilding(tiles[<<1, 1>>]) /\ tiles[<<1, 1>>].building.constructionProgress = 2
    /\ attacks # <<>>

(* the tiles with a KINGDOM or CASTLE of id *)
Capitals(id) ==
    {q \in DOMAIN tiles : /\ tiles[q].building # NoBuilding
                          /\ tiles[q].building.type \in {"KINGDOM", "CASTLE"}
                          /\ tiles[q].building.ownerId = id}

(* id holds no KINGDOM or CASTLE after the step *)
NoCapitalLeft(id) ==
    \A q \in DOMAIN tiles : tiles'[q].building = NoBuilding
                            \/ tiles'[q].building.type \notin {"KINGDOM", "CASTLE"}
                            \/ tiles'[q].building.ownerId # id

(* the step has appended a wipe-out of the tiles of id *)
WipeOutQueuedOf(id) ==
    /\ Len(wipeOutQueue') > Len(wipeOutQueue)
    /\ \A k \in (Len(wipeOutQueue) + 1)..Len(wipeOutQueue') :
          tiles[wipeOutQueue'[k].tile].ownerId = id

(* C21: a pass of the waves or of the units queues the wipe-out of a       *)
(* player exactly when that player loses its last KINGDOM or CASTLE in the *)
(* pass.                                                                   *)
C21_WipeOutOnLastCapital ==
    [][hist'.op \in {"updateAttacks", "updateUnits"}
       => \A i \in 1..Len(players) :
            WipeOutQueuedOf(players[i].id)
              <=> (Capitals(players[i].id) # {} /\ NoCapitalLeft(players[i].id))]_vars

(* C22: at every boundary between passes, every tile with a building has   *)
(* the owner of its building.                                              *)
C22_BuildingOwnerIsTileOwner ==
    \A q \in DOMAIN tiles :
        tiles[q].building # NoBuilding => tiles[q].building.ownerId = tiles[q].ownerId

(* the enclave has fallen to p1 together with the FARM p2 had built on it *)
C22_Witness ==
    /\ hist.op = "checkEncirclement" /\ hist.log # <<>>
    /\ tiles[<<2, 2>>].building # NoBuilding
    /\ tiles[<<2, 2>>].building.type = "FARM"
    /\ tiles[<<2, 2>>].building.ownerId = "p1"
    /\ tiles[<<2, 2>>].ownerId = "p1"
    /\ tiles[<<2, 2>>].building.hp = RDivI(RInt(tiles[<<2, 2>>].building.maxHp), 2)

(* the sum of the powers of the waves of id among those the step created *)
PowerSentBy(id) ==
    SeqSum([k \in 1..(Len(attacks') - Len(attacks)) |->
              IF attacks'[Len(attacks) + k].ownerId = id
              THEN attacks'[Len(attacks) + k].power[1] ELSE 0])

(* C23: a dispatch pass takes from each player's militaryPopulation the    *)
(* sum of the powers of the waves it creates for that player, leaves the   *)
(* rest there, and never takes more than there is.                         *)
C23_DispatchSpendsWhatItSends ==
    [][hist'.op = "processMilitaryDispatch"
       => /\ SubSeq(attacks', 1, Len(attacks)) = attacks
          /\ \A k \in (Len(attacks) + 1)..Len(attacks') : attacks'[k].power[2] = 1
          /\ \A i \in 1..Len(players) :
                /\ players'[i].militaryPopulation
                     = players[i].militaryPopulation - PowerSentBy(players[i].id)
                /\ players'[i].militaryPopulation >= 0]_vars

(* p1 has sent part of its reserves out in several waves and keeps the rest *)
C23_Witness ==
    /\ hist.op = "processMilitaryDispatch"
    /\ players[1].militaryPopulation > 0
    /\ players[1].militaryPopulation
         < (WarPopulation * PopScale - players[1].population) \div PopScale
    /\ Len(attacks) > 4

(* C24: when init returns nothing of the match before is left: no wave, no *)
(* queued wipe-out, tickCount 0 and no winner.                             *)
C24_InitLeavesNothingBehind ==
    [][hist'.op = "init"
       => /\ attacks' = <<>> /\ wipeOutQueue' = <<>>
          /\ tickCount' = 0 /\ winnerId' = NoOwner]_vars

(* what init does reset *)
InitResetsAllButTheQueue ==
    [][hist'.op = "init"
       => /\ attacks' = <<>> /\ wipeOutQueue' = wipeOutQueue
          /\ tickCount' = 0 /\ winnerId' = NoOwner /\ ~isGameActive']_vars

(* the entries the step has appended to wipeOutQueue *)
QueueTail == SubSeq(wipeOutQueue', Len(wipeOutQueue) + 1, Len(wipeOutQueue'))

(* the squared distance of q from the center of player i, times n * n *)
CenterDistSq(i, q) ==
    (q[1] * players[i].center.n - players[i].center.sumX)
        * (q[1] * players[i].center.n - players[i].center.sumX)
    + (q[2] * players[i].center.n - players[i].center.sumY)
        * (q[2] * players[i].center.n - players[i].center.sumY)

(* the first wave step of the pass brings a KINGDOM of another player to   *)
(* 0 hp or below                                                           *)
KingSlainByWave(st) ==
    /\ st.kind = "building" /\ st.before.building.type = "KINGDOM"
    /\ st.before.building.ownerId # st.ownerId
    /\ RLeq(RSub(st.before.building.hp, RMax(<<1, 10>>, RDivI(st.power, 10))), RInt(0))

(* the KINGDOM is gone and every tile of its owner is queued once for the  *)
(* attacker, nearest to the attacker's center first                        *)
WipeOutOrdered(st, ai) ==
    /\ tiles'[<<st.x, st.y>>].building = NoBuilding
    /\ Len(QueueTail) = Cardinality(TilesOf(st.before.building.ownerId))
    /\ {QueueTail[k].tile : k \in 1..Len(QueueTail)} = TilesOf(st.before.building.ownerId)
    /\ \A k \in 1..Len(QueueTail) : QueueTail[k].newOwnerId = st.ownerId
    /\ \A j, k \in 1..Len(QueueTail) :
          j < k => CenterDistSq(ai, QueueTail[j].tile) <= CenterDistSq(ai, QueueTail[k].tile)

(* a drain takes its entries from the front and hands their tiles over in  *)
(* the order of the queue                                                  *)
DrainedInOrder ==
    \E c \in 1..Len(wipeOutQueue) :
        /\ wipeOutQueue' = SubSeq(wipeOutQueue, c + 1, Len(wipeOutQueue))
        /\ \A k \in 1..c : tiles'[wipeOutQueue[k].tile].ownerId = wipeOutQueue[k].newOwnerId
        /\ \A i \in 1..Len(players) :
              LET got == SelectSeq(SubSeq(wipeOutQueue, 1, c),
                                   LAMBDA en : en.newOwnerId = players[i].id)
              IN  Len(got) > 0
                    => SubSeq(players'[i].ownedTiles,
                              Len(players'[i].ownedTiles) - Len(got) + 1,
                              Len(players'[i].ownedTiles))
                         = [k \in 1..Len(got) |-> got[k].tile]

(* C25: a wave step that brings a KINGDOM of another player V to 0 hp or   *)
(* below removes the building and appends one entry (tile, attacker) for   *)
(* every tile of V, by increasing squared distance from the attacker's     *)
(* center; the drain converts the entries in the order of the queue.       *)
C25_KingSlainByWaveQueuesInOrder ==
    [][/\ (hist'.op = "updateAttacks" /\ hist'.log # <<>>
             /\ KingSlainByWave(hist'.log[1].steps[1]))
          => \E ai \in 1..Len(players) :
                /\ players[ai].id = hist'.log[1].steps[1].ownerId
                /\ WipeOutOrdered(hist'.log[1].steps[1], ai)
       /\ (hist'.op = "processWipeOutQueue" /\ wipeOutQueue # <<>>)
          => DrainedInOrder]_vars

(* the tiles of p2 have gone to p1 through the queue after a wave of p1    *)
(* razed the KINGDOM                                                       *)
C25_Witness ==
    /\ hist.op = "processWipeOutQueue" /\ hist.cmds = 3
    /\ TilesOf("p2") = {} /\ wipeOutQueue = <<>>
    /\ tiles[<<WarW - 1, 2>>].ownerId = "p1"
    /\ tiles[<<WarW - 1, 2>>].building = NoBuilding
    /\ \A q \in {<<WarW - 2, y>> : y \in 0..(WarH - 1)} : tiles[q].ownerId = "p1"

(* the damage of a wave step: Math.max(0.1, power / 10) *)
StepDamage(st) == RMax(<<1, 10>>, RDivI(st.power, 10))

(* the step has hit a building that is not the attacker's *)
HitsForeignBuilding(st) ==
    st.kind = "building" /\ st.before.building.ownerId # st.ownerId

(* C26: a wave step on a tile holding a building that is not the           *)
(* attacker's takes max(0.1, power/10) off the building's hp (the building *)
(* is removed when that leaves 0 or less), leaves the tile's ownerId and   *)
(* defense as they were and enqueues no overflow entry, whatever the power. *)
C26_BuildingAbsorbsTheWave ==
    \A st \in WaveSteps :
        HitsForeignBuilding(st)
            => /\ st.after.ownerId = st.before.ownerId
               /\ st.after.defense = st.before.defense
               /\ st.pushed = <<>>
               /\ IF RLeq(RSub(st.before.building.hp, StepDamage(st)), RInt(0))
                  THEN st.after.building = NoBuilding
                  ELSE st.after.building =
                         [st.before.building EXCEPT
                            !.hp = RSub(st.before.building.hp, StepDamage(st))]

(* a wave of 3000, strong enough to take the tile and overflow, has been   *)
(* absorbed by a building that still stands                                *)
C26_Witness ==
    \E st \in WaveSteps :
        /\ HitsForeignBuilding(st) /\ st.power = RInt(3000)
        /\ st.after.building # NoBuilding
        /\ RLt(RMulI(st.before.defense, 10), st.power)

(* the tiles a step has pushed overflow entries for *)
PushedOnto(st) == {<<st.pushed[k].x, st.pushed[k].y>> : k \in 1..Len(st.pushed)}

(* C27: applyAttack never gives a WATER tile an owner: a pass of           *)
(* updateAttacks leaves the ownerId of every WATER tile as it was, and     *)
(* every overflow entry a step enqueues is for a LAND tile.                *)
C27_WavesKeepOffTheWater ==
    [][hist'.op = "updateAttacks"
       => /\ \A q \in DOMAIN tiles :
                tiles[q].type = "WATER" => tiles'[q].ownerId = tiles[q].ownerId
          /\ \A k \in 1..Len(hist'.log) : \A j \in 1..Len(hist'.log[k].steps) :
                \A q \in PushedOnto(hist'.log[k].steps[j]) : tiles[q].type = "LAND"]_vars

(* C28: no step of a wave owned by an AI lands on a tile a human owns:     *)
(* such a step would lower the tile's defense, capture the tile or damage  *)
(* the building on it.                                                     *)
C28_AIWavesSpareHumans ==
    \A st \in WaveSteps :
        (\E i \in AIs : players[i].id = st.ownerId) => st.before.ownerId \notin Humans

(* the region R of player id touches water, the map edge, neutral land or  *)
(* the land of two or more other players                                   *)
Exposed(R, id) ==
    \/ \E n \in Outside(R) :
          \/ n \notin DOMAIN tiles
          \/ tiles[n].type = "WATER"
          \/ tiles[n].ownerId = NoOwner
    \/ Cardinality({tiles[n].ownerId : n \in Outside(R) \cap DOMAIN tiles}) >= 2

(* the tiles of the components the pass has captured *)
CapturedTiles ==
    UNION {{hist'.log[k].component[j] : j \in 1..Len(hist'.log[k].component)} :
             k \in 1..Len(hist'.log)}

(* C29: checkEncirclement never changes the owner of a tile of a maximal   *)
(* same-owner land region that touches water, the map edge, neutral land   *)
(* or land of two or more other owners, and it leaves every tile outside   *)
(* the components it captures as it was.                                   *)
C29_ExposedRegionsStay ==
    [][hist'.op = "checkEncirclement"
       => /\ \A i \in 1..Len(players) : \A R \in Regions(players[i].id) :
                Exposed(R, players[i].id)
                   => \A q \in R : tiles'[q].ownerId = tiles[q].ownerId
          /\ \A q \in DOMAIN tiles \ CapturedTiles : tiles'[q] = tiles[q]]_vars

(* C30: a drain of the wipe-out queue hands a tile to the queued new owner *)
(* only if the tile is still the defeated player's: a tile that a third    *)
(* player has captured since the wipe-out was queued keeps its owner.      *)
C30_DrainTakesOnlyFromTheDefeated ==
    [][hist'.op = "processWipeOutQueue"
       => \A q \in DOMAIN tiles :
             tiles'[q].ownerId # tiles[q].ownerId => tiles[q].ownerId = PlunderVictim]_vars

(* the waves the step has appended to attacks *)
NewWaves == SubSeq(attacks', Len(attacks) + 1, Len(attacks'))

(* q is a tile player i may send a wave at: the attackTarget's when that   *)
(* is a player, unowned LAND when it is nobody                             *)
DispatchTarget(i, q) ==
    /\ q \in DOMAIN tiles
    /\ IF players[i].attackTarget = NoOwner
       THEN tiles[q].ownerId = NoOwner /\ tiles[q].type = "LAND"
       ELSE tiles[q].ownerId = players[i].attackTarget

(* the (source, target) pairs of player i: a tile it owns and a target     *)
(* next to it                                                              *)
DispatchPairs(i) ==
    {p \in TilesOf(players[i].id) \X DOMAIN tiles :
        /\ (p[1][1] - p[2][1]) * (p[1][1] - p[2][1])
             + (p[1][2] - p[2][2]) * (p[1][2] - p[2][2]) = 1
        /\ DispatchTarget(i, p[2])}

(* C31: every wave processMilitaryDispatch creates for a player starts at  *)
(* a tile the player owns and targets a 4-adjacent in-bounds tile that is  *)
(* the attackTarget's (or unowned LAND when attackTarget is null); a       *)
(* player with militaryPopulation < 1 or without such a pair creates no    *)
(* wave and keeps its militaryPopulation.                                  *)
C31_DispatchFromOwnLandAtTarget ==
    [][hist'.op = "processMilitaryDispatch"
       => \A i \in 1..Len(players) :
            /\ \A k \in 1..Len(NewWaves) :
                  NewWaves[k].ownerId = players[i].id
                    => <<<<NewWaves[k].x \div CoordScale, NewWaves[k].y \div CoordScale>>,
                         <<NewWaves[k].targetX, NewWaves[k].targetY>>>> \in DispatchPairs(i)
            /\ (players[i].militaryPopulation < 1 \/ DispatchPairs(i) = {})
                  => /\ \A k \in 1..Len(NewWaves) : NewWaves[k].ownerId # players[i].id
                     /\ players'[i].militaryPopulation = players[i].militaryPopulation]_vars

(* the total power of the waves the step has created for player id *)
PowerCreatedFor(id) ==
    RSum(SelectSeq(NewWaves, LAMBDA w : w.ownerId = id))

(* min(militaryPopulation, ceil(militaryPopulation * 0.05) + 5) *)
DispatchCap(mp) ==
    IF mp <= ((mp + 19) \div 20) + 5 THEN mp ELSE ((mp + 19) \div 20) + 5

(* C32: in one processMilitaryDispatch pass the total power of the waves   *)
(* created for a player is at most min(militaryPopulation,                 *)
(* ceil(militaryPopulation * 0.05) + 5), both taken at the start of the    *)
(* pass.                                                                   *)
C32_DispatchWithinFlowRate ==
    [][hist'.op = "processMilitaryDispatch"
       => \A i \in 1..Len(players) :
             RLeq(PowerCreatedFor(players[i].id),
                  RInt(DispatchCap(players[i].militaryPopulation)))]_vars

(* a pass has sent the full flow of a player holding more than the flow:   *)
(* 15 of the 200 of p1 are on their way                                    *)
C32_Witness ==
    /\ hist.op = "processMilitaryDispatch"
    /\ players[1].militaryPopulation = 185
    /\ RSum(SelectSeq(attacks, LAMBDA w : w.ownerId = "p1")) = RInt(15)

(* the wave is less than 0.2 of a tile from its target *)
NearTarget(w) ==
    (w.targetX * CoordScale - w.x) * (w.targetX * CoordScale - w.x)
      + (w.targetY * CoordScale - w.y) * (w.targetY * CoordScale - w.y)
    < (CoordScale \div 5) * (CoordScale \div 5)

(* the positions in attacks of the waves less than 0.2 from their target *)
Arrived == {k \in 1..Len(attacks) : NearTarget(attacks[k])}

(* the waves a pass of updateAttacks has resolved, in the order of attacks *)
ResolvedWaves == [k \in 1..Len(hist'.log) |-> hist'.log[Len(hist'.log) + 1 - k].wave]

(* every arrived wave is resolved once and gone, every other wave is still *)
(* in attacks, moved, and no wave has been added                           *)
LandedOnce ==
    /\ ResolvedWaves = SelectSeq(attacks, NearTarget)
    /\ attacks' = [k \in 1..(Len(attacks) - Cardinality(Arrived)) |->
                     WaveMoved(SelectSeq(attacks, LAMBDA w : ~NearTarget(w))[k])]

(* C33: a pass of updateAttacks resolves every wave less than 0.2 from its *)
(* target exactly once and removes it, keeps every other wave and adds     *)
(* none; as long as the passes keep coming, every wave is removed in the   *)
(* end.                                                                    *)
C33_WavesLandOnceAndLeave ==
    /\ [][hist'.op = "updateAttacks" => LandedOnce]_vars
    /\ (attacks # <<>>) ~> (attacks = <<>>)

(* waves created one tile from their targets have all travelled, landed    *)
(* and gone                                                                *)
C33_Witness ==
    /\ hist.op = "updateAttacks" /\ Len(hist.log) > 0 /\ attacks = <<>>
    /\ \E i \in 1..Len(players) :
          players[i].militaryPopulation = 0 /\ players[i].population < WarPopulation * PopScale

(* C34: once winnerId is set it keeps its value through every later pass   *)
(* until init: isGameOver never goes back to false and the winner never    *)
(* becomes a different player.                                             *)
C34_WinnerStays ==
    [][(winnerId # NoOwner /\ hist'.op # "init") => winnerId' = winnerId]_vars


(* the tiles whose building the step has removed *)
BuildingsLost == {q \in DOMAIN tiles : tiles[q].building # NoBuilding /\ tiles'[q].building = NoBuilding}

(* C35: a building whose hp drops to 0 or below is removed from its tile   *)
(* and the tile's ownerId is left as it was, both when a wave step of      *)
(* applyAttack destroys it and when a unit does in handleCombat.           *)
C35_RazingKeepsTheOwner ==
    /\ [](\A st \in WaveSteps :
            (st.kind = "building" /\ st.after.building = NoBuilding)
                => st.after.ownerId = st.before.ownerId)
    /\ [][hist'.op = "updateUnits"
            => \A q \in BuildingsLost : tiles'[q].ownerId = tiles[q].ownerId]_vars


(* C36: every building in a component checkEncirclement captures is given  *)
(* to the capturer and is left with half the hp it had before the capture. *)
C36_CaptureHalvesTheHp ==
    [][hist'.op = "checkEncirclement"
       => \A k \in 1..Len(hist'.log) : \A j \in 1..Len(hist'.log[k].component) :
            LET q == hist'.log[k].component[j]
            IN  tiles[q].building # NoBuilding
                  => /\ tiles'[q].building # NoBuilding
                     /\ tiles'[q].building.ownerId = hist'.log[k].to
                     /\ tiles'[q].building.hp = RDivI(tiles[q].building.hp, 2)]_vars


(* the units of players other than id that are alive and not deprecated *)
ActiveFoes(id) ==
    UNION {{<<i, k>> : k \in {n \in 1..Len(players[i].units) :
                                  /\ players[i].units[n].hp > 0
                                  /\ players[i].units[n].type # "SOLDIER"}} :
             i \in {j \in 1..Len(players) : players[j].id # id}}

(* the buildings of id the step has damaged or razed *)
BuildingsStruck(id) ==
    {q \in DOMAIN tiles :
        /\ tiles[q].building # NoBuilding /\ tiles[q].building.ownerId = id
        /\ (tiles'[q].building = NoBuilding \/ tiles'[q].building.hp # tiles[q].building.hp)}

(* the units of id that are still listed and have lost hp in the step *)
UnitsStruck(id) ==
    {u \in UNION {{players[i].units[k] : k \in 1..Len(players[i].units)} :
                    i \in {j \in 1..Len(players) : players[j].id = id}} :
        \E i \in 1..Len(players) : \E k \in 1..Len(players'[i].units) :
            players'[i].units[k].id = u.id /\ players'[i].units[k].hp < u.hp}

(* C37: a unit with hp <= 0 and any SOLDIER is gone from its owner's units *)
(* after the owner's next unit pass and does nothing in that pass: a pass  *)
(* harms at most as many buildings and units of a player as the other      *)
(* players have units that are alive and not SOLDIERs.                     *)
C37_FallenUnitsDoNothing ==
    [][hist'.op = "updateUnits"
       => \A i \in 1..Len(players) :
            /\ \A k \in 1..Len(players[i].units) :
                  (players[i].units[k].hp <= 0 \/ players[i].units[k].type = "SOLDIER")
                    => \A j \in 1..Len(players'[i].units) :
                          players'[i].units[j].id # players[i].units[k].id
            /\ Cardinality(BuildingsStruck(players[i].id))
                 + Cardinality(UnitsStruck(players[i].id))
                 <= Cardinality(ActiveFoes(players[i].id))]_vars

(* the SOLDIER and the dead SWORDSMAN of p1 are gone, and the FARM of p2   *)
(* they stood next to is whole                                             *)
C37_Witness ==
    /\ hist.op = "updateUnits"
    /\ players[1].units = <<>>
    /\ tiles[<<WarW - 2, 2>>].building # NoBuilding
    /\ tiles[<<WarW - 2, 2>>].building.type = "FARM"
    /\ tiles[<<WarW - 2, 2>>].building.hp = RInt(200)


(* the tiles of id that hold a finished building of id *)
FinishedOf(id) ==
    {q \in DOMAIN tiles :
        /\ tiles[q].ownerId = id /\ tiles[q].building # NoBuilding
        /\ tiles[q].building.ownerId = id /\ ~tiles[q].building.isUnderConstruction}

(* the income in resource k of the buildings on the tiles S *)
RECURSIVE IncomeOver(_, _)
IncomeOver(S, k) ==
    IF S = {} THEN 0
    ELSE LET q == CHOOSE t \in S : TRUE
         IN  BUILDING_STATS[tiles[q].building.type].income[k] + IncomeOver(S \ {q}, k)

(* one gold, and the income of the finished buildings *)
IncomeDue(id) ==
    [k \in {"GOLD", "WOOD", "STONE", "FOOD"} |->
        (IF k = "GOLD" THEN 1 ELSE 0) + IncomeOver(FinishedOf(id), k)]

(* the tiles with a building going up that the step has left standing *)
SitesLeft ==
    {q \in DOMAIN tiles :
        /\ tiles[q].building # NoBuilding /\ tiles[q].building.isUnderConstruction
        /\ tiles'[q].building # NoBuilding}

(* C38: a building placed without the free flag starts under construction  *)
(* at progress 0; each building pass and each update tick gives it exactly *)
(* one point; it is complete exactly when its progress has reached 100,    *)
(* which it never exceeds; and an economy pass pays a player the income of *)
(* its finished buildings only.                                            *)
C38_SitesRiseOnePointATick ==
    /\ [](\A q \in DOMAIN tiles :
            tiles[q].building # NoBuilding
              => /\ tiles[q].building.constructionProgress \in 0..100
                 /\ tiles[q].building.isUnderConstruction
                      <=> tiles[q].building.constructionProgress < 100)
    /\ [][/\ hist'.op = "build"
             => /\ tiles'[<<hist'.x, hist'.y>>].building # NoBuilding
                /\ tiles'[<<hist'.x, hist'.y>>].building.isUnderConstruction
                /\ tiles'[<<hist'.x, hist'.y>>].building.constructionProgress = 0
          /\ hist'.op \in {"updateBuildings", "update"}
             => \A q \in SitesLeft :
                   tiles'[q].building.constructionProgress
                     = tiles[q].building.constructionProgress + 1
          /\ hist'.op = "updateEconomy"
             => \A i \in 1..Len(players) :
                   /\ players'[i].income = IncomeDue(players[i].id)
                   /\ \A k \in {"GOLD", "WOOD", "STONE", "FOOD"} :
                         players'[i].resources[k]
                           = players[i].resources[k] + IncomeDue(players[i].id)[k]]_vars

(* the FARM on (1,1) has just been finished by its hundredth point, and    *)
(* the economy pass before it paid p1 nothing for it                       *)
C38_Witness ==
    /\ hist.op \in {"updateBuildings", "update"}
    /\ tiles[<<1, 1>>].building # NoBuilding
    /\ tiles[<<1, 1>>].building.type = "FARM"
    /\ tiles[<<1, 1>>].building.constructionProgress = 100
    /\ ~tiles[<<1, 1>>].building.isUnderConstruction
    /\ players[1].income = [GOLD |-> 1, WOOD |-> 0, STONE |-> 0, FOOD |-> 0]


(* the passes of a tick after the gated economy and AI passes, each run to *)
(* completion on what the one before it left: units, dispatch, wave        *)
(* travel, building construction, encirclement on every 50th tick,         *)
(* territory regeneration on every 20th, and the wipe-out drain            *)
PassesInOrder(e1, wd, sp) ==
    LET units == updateUnits(e1, <<wd>>).e
        dispatched == processMilitaryDispatch(units, <<sp>>)
        travelled == updateAttacks(dispatched).e
        built == updateBuildings(travelled)
        encircled == IF built.tickCount % 50 = 0 THEN checkEncirclement(built).e ELSE built
        regrown == IF encircled.tickCount % 20 = 0 THEN updateTerritory(encircled)
                   ELSE encircled
    IN  processWipeOutQueue(regrown)

(* C39: one update call leaves what its passes leave when each runs to     *)
(* completion after the one before: dispatch before wave travel, wave      *)
(* travel before building construction, building construction before      *)
(* encirclement, encirclement before territory regeneration, and the       *)
(* wipe-out drain last.                                                    *)
C39_PassesInFixedOrder ==
    [][hist'.op = "update"
       => \E e1 \in Planned([Eng EXCEPT !.tickCount = @ + 1]) :
             \E sp \in WaveSpeeds, wd \in WanderOffsets :
                Eng' = PassesInOrder(e1, wd, sp)]_vars

(* after the first tick on the busy board every wave is under way: those   *)
(* the tick has dispatched have travelled in the same tick                 *)
C39_Witness ==
    /\ hist.op = "update" /\ hist.cmds = 1
    /\ Len(attacks) >= 2
    /\ HasBuilding(tiles[<<1, 1>>]) /\ tiles[<<1, 1>>].building.constructionProgress = 1
    /\ \A k \in 1..Len(attacks) :
          attacks[k].x % CoordScale # 0 \/ attacks[k].y % CoordScale # 0


====
